---- MODULE Spec2Model ----
(***************************************************************************)
(* Path-finding engine of king-defender/pathfinder: the three strategies   *)
(* (AStar.ts, Dijkstra.ts, BFS.ts) and PathfindingService.ts.              *)
(*                                                                         *)
(* Numbers.  A JavaScript value is a record [k, v]: k = "num" is a finite  *)
(* number, "nan" is NaN, "str" a string, "undef" undefined.  Coordinates   *)
(* are fixed-point: v counts units of 1e-5 degree, so 90 degrees is        *)
(* 9000000.  Radians are counted in 1e-8 rad, sines and cosines in 1e-8,   *)
(* distances in metres (the code's kilometres times 1000).                 *)
(***************************************************************************)
EXTENDS Integers, Sequences, FiniteSets, TLC

VARIABLES probe, auth, loop, calls, paths, events, nextId

vars == <<probe, auth, loop, calls, paths, events, nextId>>

svcVars == <<calls, paths, events, nextId>>

(* ------------------------------ bounds --------------------------------- *)

\* the Date.now() differences, in ms, a timed section can observe
Durations == {0, 1}

\* the differences one findPath observes: <<the strategy's executionTime,
\* the service's duration>>, the former inside the latter
ClockReadings == {<<0, 0>>, <<0, 1>>}

(* --------------------------- JavaScript values ------------------------- *)

Num(n) == [k |-> "num", v |-> n]

NaN == [k |-> "nan", v |-> 0]

Str == [k |-> "str", v |-> 0]

Undef == [k |-> "undef", v |-> 0]

\* typeof x
TypeOf(x) ==
  CASE x.k \in {"num", "nan"} -> "number"
    [] x.k = "str" -> "string"
    [] OTHER -> "undefined"

\* x < n and x > n for a numeric literal n: false for NaN, and for a string
\* that does not parse as a number (ToNumber gives NaN)
JsLt(x, n) == x.k = "num" /\ x.v < n

JsGt(x, n) == x.k = "num" /\ x.v > n

\* one degree, in coordinate units
Deg == 100000

Point(lat, lng) == [k |-> "point", lat |-> lat, lng |-> lng]

\* a request field start/end that is absent
NoPoint == [k |-> "undefined", lat |-> Undef, lng |-> Undef]

(* ------------------------- fixed-point arithmetic ---------------------- *)

Abs(x) == IF x < 0 THEN -x ELSE x

Max2(x, y) == IF x < y THEN y ELSE x

\* (x * num) / den without overflowing 32 bits, for 0 <= num, den <= 100000
MulDiv(x, num, den) == (x \div den) * num + ((x % den) * num) \div den

RECURSIVE SqrtIter(_, _, _)
SqrtIter(n, lo, hi) ==
  IF lo >= hi THEN lo
  ELSE LET mid == (lo + hi + 1) \div 2
       IN IF mid * mid <= n THEN SqrtIter(n, mid, hi)
          ELSE SqrtIter(n, lo, mid - 1)

\* Math.sqrt on a non-negative integer: the integer part of the root
Sqrt(n) == SqrtIter(n, 0, 46340)

\* pi/2 and pi/12 in 1e-8 rad
HalfPi == 157079633

Cell == 26179939

\* 1e8 * sin(j * pi/12), j = 0..6
SinTable == <<0, 25881905, 50000000, 70710678, 86602540, 96592583, 100000000>>

\* slope of the sine between two table nodes, per mille
SinSlope(j) == ((SinTable[j + 2] - SinTable[j + 1]) * 10) \div (Cell \div 100)

\* Math.sin on [0, pi/2]: linear interpolation in SinTable
SinQ(x) ==
  LET j == IF x \div Cell > 5 THEN 5 ELSE x \div Cell
  IN SinTable[j + 1] + MulDiv(x - j * Cell, SinSlope(j), 1000)

\* Math.sin on [-pi, pi]
Sin(x) ==
  LET y == Abs(x)
      s == IF y > HalfPi THEN SinQ(Max2(0, 2 * HalfPi - y)) ELSE SinQ(y)
  IN IF x < 0 THEN -s ELSE s

\* Math.cos on [-pi, pi]
Cos(x) ==
  LET y == Abs(x)
  IN IF y > HalfPi THEN -SinQ(y - HalfPi) ELSE SinQ(HalfPi - y)

\* Math.asin on [0, 1]: the inverse of SinQ
Asin(s) ==
  LET t == IF s > 100000000 THEN 100000000 ELSE s
      j == CHOOSE i \in 0..5 :
             /\ SinTable[i + 1] <= t
             /\ (t < SinTable[i + 2] \/ i = 5)
      ds == t - SinTable[j + 1]
      sl == SinSlope(j)
      r == j * Cell + (ds \div sl) * 1000 + ((ds % sl) * 1000) \div sl
  IN IF r > HalfPi THEN HalfPi ELSE r

\* Math.atan2(y, x) for y, x >= 0 on the unit circle (y*y + x*x = 1)
Atan2(y, x) == IF y <= x THEN Asin(y) ELSE HalfPi - Asin(x)

(* ------------------------- AStar.ts / BFS.ts / Dijkstra.ts ------------- *)

\* x / n rounded toward zero, so that negation commutes with it as it does in
\* floating point
TDiv(x, n) == IF x < 0 THEN -((-x) \div n) ELSE x \div n

\* degrees * (Math.PI / 180): coordinate units to 1e-8 rad
toRadians(degrees) ==
  IF degrees < 0 THEN -MulDiv(-degrees, 17453, 1000)
  ELSE MulDiv(degrees, 17453, 1000)

\* Earth's radius in kilometres
R == 6371

\* haversineDistance with the arguments of Math.atan2 exchanged
HaversineNum_SwappedAtan(lat1, lng1, lat2, lng2) ==
  LET dLat == toRadians(lat2 - lat1)
      dLng == toRadians(lng2 - lng1)
      sx == Sin(TDiv(dLat, 2))
      sy == Sin(TDiv(dLng, 2))
      c1 == Cos(toRadians(lat1))
      c2 == Cos(toRadians(lat2))
      cc == (c1 \div 10000) * (c2 \div 10000)
      sc == Max2(Abs(sx), Abs(sy)) \div 4000 + 1
      X == Abs(sx) \div sc
      Y == IF cc < 0 THEN 0 ELSE ((Abs(sy) \div sc) * Sqrt(cc)) \div 10000
      sqrtA == Sqrt(X * X + Y * Y) * sc
      h4 == sqrtA \div 10000
      oneMinusA == 100000000 - h4 * h4
  IN IF cc < 0 \/ oneMinusA < 0 THEN NaN
     ELSE LET c == 2 * Atan2(Sqrt(oneMinusA) * 10000, sqrtA)
          IN Num(MulDiv(c, R, 100000))

\* haversineDistance on two finite points, in metres.  a itself goes down to
\* 1e-14, below the fixed-point resolution, so the root of a is formed
\* directly, scaled by sc so that the squares fit.
HaversineNum(lat1, lng1, lat2, lng2) ==
  LET dLat == toRadians(lat2 - lat1)
      dLng == toRadians(lng2 - lng1)
      sx == Sin(TDiv(dLat, 2))
      sy == Sin(TDiv(dLng, 2))
      c1 == Cos(toRadians(lat1))
      c2 == Cos(toRadians(lat2))
      cc == (c1 \div 10000) * (c2 \div 10000)
      sc == Max2(Abs(sx), Abs(sy)) \div 4000 + 1
      X == Abs(sx) \div sc
      Y == IF cc < 0 THEN 0 ELSE ((Abs(sy) \div sc) * Sqrt(cc)) \div 10000
      sqrtA == Sqrt(X * X + Y * Y) * sc
      h4 == sqrtA \div 10000
      oneMinusA == 100000000 - h4 * h4
  IN IF cc < 0 \/ oneMinusA < 0 THEN NaN
     ELSE LET c == 2 * Atan2(sqrtA, Sqrt(oneMinusA) * 10000)
          IN Num(MulDiv(c, R, 100000))

IsNum(x) == x.k = "num"

haversineDistance(point1, point2) ==
  IF IsNum(point1.lat) /\ IsNum(point1.lng) /\ IsNum(point2.lat) /\ IsNum(point2.lng)
  THEN HaversineNum(point1.lat.v, point1.lng.v, point2.lat.v, point2.lng.v)
  ELSE NaN

\* x + y on numbers
JsAdd(x, y) == IF IsNum(x) /\ IsNum(y) THEN Num(x.v + y.v) ELSE NaN

RECURSIVE DistanceFrom(_, _)
DistanceFrom(path, i) ==
  IF i > Len(path) THEN Num(0)
  ELSE JsAdd(haversineDistance(path[i - 1], path[i]), DistanceFrom(path, i + 1))

\* totalDistance = sum over i = 1 .. path.length-1 of haversine(path[i-1], path[i])
calculateDistance(path) == DistanceFrom(path, 2)

(* options: k = "object" for an object, "null" for null, "undefined" when the
   caller passed none; steps is a JavaScript value counting steps, isPublic
   a boolean (absent reads as false under `|| false`) *)
Options(steps, isPublic) == [k |-> "object", steps |-> steps, isPublic |-> isPublic]

EmptyOptions == Options(Undef, FALSE)

NullOptions == [k |-> "null", steps |-> Undef, isPublic |-> FALSE]

NoOptions == [k |-> "undefined", steps |-> Undef, isPublic |-> FALSE]

\* options.steps || dflt: undefined, 0 and NaN are falsy
StepsOr(options, dflt) ==
  IF options.steps.k = "num" /\ options.steps.v # 0 THEN options.steps.v ELSE dflt

\* a + (b - a) * (i / steps)
Lerp(a, b, i, steps) ==
  IF IsNum(a) /\ IsNum(b) THEN Num(a.v + TDiv((b.v - a.v) * i, steps)) ELSE NaN

\* the body of the waypoint loop of A* and BFS: for (i = 1; i < steps; i++)
Waypoint(start, end, i, steps) ==
  Point(Lerp(start.lat, end.lat, i, steps), Lerp(start.lng, end.lng, i, steps))

Interpolate(start, end, steps) ==
  <<start>> \o [i \in 1..(steps - 1) |-> Waypoint(start, end, i, steps)] \o <<end>>

DefaultStepsAStar == 10

DefaultStepsDijkstra == 15

DefaultStepsBFS == 8

\* calculateAStarPath without its closing path.push(end)
calculateAStarPath_OmitsEnd(start, end, options) ==
  LET steps == StepsOr(options, DefaultStepsAStar)
  IN <<start>> \o [i \in 1..(steps - 1) |-> Waypoint(start, end, i, steps)]

calculateAStarPath(start, end, options) ==
  Interpolate(start, end, StepsOr(options, DefaultStepsAStar))

calculateBFSPath(start, end, options) ==
  Interpolate(start, end, StepsOr(options, DefaultStepsBFS))

\* Math.random() in tenths: 0.0, 0.5 and 0.9 stand for [0, 1)
RandomTenths == {0, 5, 9}

\* the Math.random() streams one invocation can draw from, repeated
\* cyclically: constant ones and an alternating one
RandomStreams == {<<r>> : r \in RandomTenths} \cup {<<0, 9>>}

\* the n-th Math.random() of one invocation
Draw(rnd, n) == rnd[((n - 1) % Len(rnd)) + 1]

\* const variation = 0.0001 (degrees), in coordinate units
variation == 10

\* (Math.random() - 0.5) * variation
Variation(r10) == ((r10 - 5) * variation) \div 10

JitteredWaypoint(start, end, i, steps, rnd) ==
  LET p == Waypoint(start, end, i, steps)
  IN Point(JsAdd(p.lat, Num(Variation(Draw(rnd, 2 * i - 1)))),
           JsAdd(p.lng, Num(Variation(Draw(rnd, 2 * i)))))

\* calculateDijkstraPath with the loop bound i <= steps
calculateDijkstraPath_ExtraWaypoint(start, end, options, rnd) ==
  LET steps == StepsOr(options, DefaultStepsDijkstra)
  IN <<start>> \o [i \in 1..steps |-> JitteredWaypoint(start, end, i, steps, rnd)]
       \o <<end>>

calculateDijkstraPath(start, end, options, rnd) ==
  LET steps == StepsOr(options, DefaultStepsDijkstra)
  IN <<start>> \o [i \in 1..(steps - 1) |-> JitteredWaypoint(start, end, i, steps, rnd)]
       \o <<end>>

NoMetadata ==
  [algorithm |-> "undefined", nodesExplored |-> 0, executionTime |-> 0,
   heuristic |-> "undefined", guaranteed |-> "undefined",
   pathType |-> "undefined", options |-> NoOptions, error |-> "undefined"]

\* what a strategy's findPath settles with: k = "ok" or "throw"
StrategyOk(path, metadata) ==
  [k |-> "ok", path |-> path, distance |-> calculateDistance(path),
   metadata |-> metadata, error |-> "none"]

StrategyThrow(error) ==
  [k |-> "throw", path |-> <<>>, distance |-> Num(0), metadata |-> NoMetadata,
   error |-> error]

NoOutcome ==
  [k |-> "none", path |-> <<>>, distance |-> Num(0), metadata |-> NoMetadata,
   error |-> "none"]

\* reading options.steps of null throws a TypeError; et is Date.now() - startTime
AStarFindPath(start, end, options, et) ==
  IF options.k = "null" THEN StrategyThrow("TypeError")
  ELSE LET path == calculateAStarPath(start, end, options)
       IN StrategyOk(path,
            [NoMetadata EXCEPT !.algorithm = "A*", !.nodesExplored = Len(path),
               !.executionTime = et, !.heuristic = "euclidean", !.options = options])

DijkstraFindPath(start, end, options, et, rnd) ==
  IF options.k = "null" THEN StrategyThrow("TypeError")
  ELSE LET path == calculateDijkstraPath(start, end, options, rnd)
       IN StrategyOk(path,
            [NoMetadata EXCEPT !.algorithm = "Dijkstra", !.nodesExplored = Len(path) * 2,
               !.executionTime = et, !.guaranteed = "optimal", !.options = options])

BFSFindPath(start, end, options, et) ==
  IF options.k = "null" THEN StrategyThrow("TypeError")
  ELSE LET path == calculateBFSPath(start, end, options)
       IN StrategyOk(path,
            [NoMetadata EXCEPT !.algorithm = "BFS", !.nodesExplored = Len(path) * 3,
               !.executionTime = et, !.pathType = "shortest_hops", !.options = options])

Algorithms == {"astar", "dijkstra", "bfs"}

\* one strategy invocation; (et, rnd) are the clock and the random stream
StrategyFindPath(algorithm, start, end, options, et, rnd) ==
  CASE algorithm = "astar" -> AStarFindPath(start, end, options, et)
    [] algorithm = "dijkstra" -> DijkstraFindPath(start, end, options, et, rnd)
    [] algorithm = "bfs" -> BFSFindPath(start, end, options, et)

(* ------------------- direct strategy invocations (unit tests) ---------- *)

\* New York and Times Square of algorithms.test.ts, the corner of the valid
\* range, and a point whose latitude is NaN
NewYork == Point(Num(4071280), Num(-7400600))

TimesSquare == Point(Num(4075890), Num(-7398510))

Corner == Point(Num(90 * Deg), Num(180 * Deg))

NaNPoint == Point(NaN, Num(0))

ProbePoints == {NewYork, TimesSquare, Corner, NaNPoint}

StepsValues == {Undef, Num(-1), Num(0), Num(1), Num(2), Num(3), Num(5)}

ProbeOptions == {Options(s, FALSE) : s \in StepsValues} \cup {NullOptions}

NoProbe ==
  [algorithm |-> "none", start |-> NoPoint, end |-> NoPoint, options |-> NoOptions,
   first |-> NoOutcome, second |-> NoOutcome]

\* two invocations of one strategy on the same arguments, as the tests make
ProbeFirst ==
  /\ probe.algorithm \in Algorithms
  /\ probe.first.k = "none"
  /\ \E et \in Durations, rnd \in RandomStreams :
       probe' = [probe EXCEPT !.first =
                   StrategyFindPath(probe.algorithm, probe.start, probe.end,
                                    probe.options, et, rnd)]
  /\ UNCHANGED <<auth, loop, svcVars>>

ProbeSecond ==
  /\ probe.algorithm \in Algorithms
  /\ probe.first.k # "none"
  /\ probe.second.k = "none"
  /\ \E et \in Durations, rnd \in RandomStreams :
       probe' = [probe EXCEPT !.second =
                   StrategyFindPath(probe.algorithm, probe.start, probe.end,
                                    probe.options, et, rnd)]
  /\ UNCHANGED <<auth, loop, svcVars>>

(* --------------------------- PathfindingService.ts --------------------- *)

\* the calls made on the service instance, which may overlap
MaxCalls == 1

CallIds == 1..MaxCalls

\* an error value: createError(message, statusCode), a TypeError of the
\* runtime, or a rejection of the Firestore client
NoError == [k |-> "none", status |-> 0, message |-> "none"]

createError(message, statusCode) == [k |-> "http", status |-> statusCode, message |-> message]

TypeError == [k |-> "TypeError", status |-> 0, message |-> "Cannot read properties"]

FirestoreError == [k |-> "FirestoreError", status |-> 0, message |-> "unavailable"]

\* validateCoordinates: the error it throws, or NoError
validateCoordinates(point) ==
  IF point.k = "undefined" THEN TypeError
  ELSE IF TypeOf(point.lat) # "number" \/ JsLt(point.lat, -90 * Deg) \/ JsGt(point.lat, 90 * Deg)
  THEN createError("Invalid latitude", 400)
  ELSE IF TypeOf(point.lng) # "number" \/ JsLt(point.lng, -180 * Deg) \/ JsGt(point.lng, 180 * Deg)
  THEN createError("Invalid longitude", 400)
  ELSE NoError

\* a request as the caller passes it: k = "object", or "null" for a null item
\* of a batch; start and end may be absent (NoPoint)
Request(start, end, algorithm, options) ==
  [k |-> "object", start |-> start, end |-> end, algorithm |-> algorithm,
   options |-> options]

NullRequest ==
  [k |-> "null", start |-> NoPoint, end |-> NoPoint, algorithm |-> "undefined",
   options |-> NoOptions]

\* the id '' of a degenerate result; repository ids are 1, 2, ...
EmptyId == 0

NoResult ==
  [id |-> EmptyId, path |-> <<>>, distance |-> Num(0), duration |-> 0,
   algorithm |-> "undefined", metadata |-> NoMetadata]

NoDoc ==
  [userId |-> "none", start |-> NoPoint, end |-> NoPoint, algorithm |-> "undefined",
   path |-> <<>>, distance |-> Num(0), duration |-> 0, options |-> NoOptions,
   metadata |-> NoMetadata, createdAt |-> 0, isPublic |-> FALSE]

(* The locals of one findPath invocation.  state: "persisting" while the
   add() is in flight, "logging" while the analytics set() is in flight,
   "returned" and "failed" when it has settled.  strategyRuns, docId and
   analytics record what the invocation did. *)
NoFrame ==
  [req |-> NullRequest, userId |-> "none", state |-> "none", strategyRuns |-> 0,
   doc |-> NoDoc, docId |-> EmptyId, analytics |-> "none", result |-> NoResult,
   error |-> NoError]

\* the switch of findPath with a default case that falls back to A*
Dispatch_FallsBack(algorithm) == IF algorithm \in Algorithms THEN algorithm ELSE "astar"

\* the switch of findPath: the case taken, "default" for no match
Dispatch(algorithm) == IF algorithm \in Algorithms THEN algorithm ELSE "default"

\* findPath with the switch moved above the two validateCoordinates calls
BeginFrame_StrategyFirst(req, userId, et, duration, rnd) ==
  LET base == [NoFrame EXCEPT !.req = req, !.userId = userId]
      options == IF req.options.k = "undefined" THEN EmptyOptions ELSE req.options
      e1 == validateCoordinates(req.start)
      e2 == validateCoordinates(req.end)
  IN IF Dispatch(req.algorithm) = "default"
     THEN [base EXCEPT !.state = "failed",
                       !.error = createError("Unsupported algorithm: " \o req.algorithm, 400)]
     ELSE IF req.start.k = "undefined" \/ req.end.k = "undefined"
     THEN [base EXCEPT !.state = "failed", !.strategyRuns = 1, !.error = TypeError]
     ELSE LET pathResult ==
                StrategyFindPath(Dispatch(req.algorithm), req.start, req.end, options,
                                 et, rnd)
          IN IF pathResult.k = "throw"
             THEN [base EXCEPT !.state = "failed", !.strategyRuns = 1,
                               !.error = TypeError]
             ELSE IF e1.k # "none"
             THEN [base EXCEPT !.state = "failed", !.strategyRuns = 1, !.error = e1]
             ELSE IF e2.k # "none"
             THEN [base EXCEPT !.state = "failed", !.strategyRuns = 1, !.error = e2]
             ELSE [base EXCEPT
                     !.state = "persisting", !.strategyRuns = 1,
                     !.doc = [userId |-> userId, start |-> req.start, end |-> req.end,
                              algorithm |-> req.algorithm, path |-> pathResult.path,
                              distance |-> pathResult.distance, duration |-> duration,
                              options |-> options, metadata |-> pathResult.metadata,
                              createdAt |-> 0, isPublic |-> options.isPublic]]

\* findPath up to its first I/O: lines 40-79.  et is the strategy's own
\* Date.now() difference, duration the service's, rnd the random stream.
BeginFrame(req, userId, et, duration, rnd) ==
  LET base == [NoFrame EXCEPT !.req = req, !.userId = userId]
      options == IF req.options.k = "undefined" THEN EmptyOptions ELSE req.options
      e1 == validateCoordinates(req.start)
      e2 == validateCoordinates(req.end)
  IN IF e1.k # "none" THEN [base EXCEPT !.state = "failed", !.error = e1]
     ELSE IF e2.k # "none" THEN [base EXCEPT !.state = "failed", !.error = e2]
     ELSE IF Dispatch(req.algorithm) = "default"
     THEN [base EXCEPT !.state = "failed",
                       !.error = createError("Unsupported algorithm: " \o req.algorithm, 400)]
     ELSE LET pathResult ==
                StrategyFindPath(Dispatch(req.algorithm), req.start, req.end, options,
                                 et, rnd)
          IN IF pathResult.k = "throw"
             THEN [base EXCEPT !.state = "failed", !.strategyRuns = 1,
                               !.error = TypeError]
             ELSE [base EXCEPT
                     !.state = "persisting", !.strategyRuns = 1,
                     !.doc = [userId |-> userId, start |-> req.start, end |-> req.end,
                              algorithm |-> req.algorithm, path |-> pathResult.path,
                              distance |-> pathResult.distance, duration |-> duration,
                              options |-> options, metadata |-> pathResult.metadata,
                              createdAt |-> 0, isPublic |-> options.isPublic]]

\* the PathResult without the id of the record
ResultOf_NoId(frame, id) ==
  [id |-> EmptyId, path |-> frame.doc.path, distance |-> frame.doc.distance,
   duration |-> frame.doc.duration, algorithm |-> frame.doc.algorithm,
   metadata |-> frame.doc.metadata]

\* lines 86-93: the PathResult findPath returns
ResultOf(frame, id) ==
  [id |-> id, path |-> frame.doc.path, distance |-> frame.doc.distance,
   duration |-> frame.doc.duration, algorithm |-> frame.doc.algorithm,
   metadata |-> frame.doc.metadata]

\* the catch block of batchFindPath without metadata.error
DegenerateResult_NoError(request, error) ==
  [NoResult EXCEPT !.algorithm = request.algorithm]

\* lines 105-114: the result batchFindPath pushes for a failed request
DegenerateResult(request, error) ==
  [NoResult EXCEPT !.algorithm = request.algorithm,
                   !.metadata = [NoMetadata EXCEPT !.error = error.message]]

\* the event logAnalytics writes to analytics/{userId}/events
AnalyticsEvent(frame) ==
  [userId |-> frame.userId, type |-> "pathfinding", algorithm |-> frame.doc.algorithm,
   duration |-> frame.doc.duration, distance |-> frame.doc.distance]

(* A call of the service.  op: "idle", "find", "batch", "get", "delete" or
   "history"; pc: "idle",
   "next" (a batch about to start request idx), "frame" (inside findPath),
   "reading", "counting", "deleting" (a repository call of get, delete or
   history in flight), "returned", "threw".  frames holds the findPath
   invocations made so far,
   the last one being the current one; results is the batch's array; ret
   and error are what the call settled with.  view and counted are history
   variables, no state of the program: the collection as the call's read
   and as its count query found it. *)
\* what getPath, deletePath or getPathHistory returned: k = "none" (nothing
\* yet), "null", "result", "void" or "history"
NoReturn == [k |-> "none", result |-> NoResult, paths |-> <<>>, total |-> 0]

IdleCall ==
  [op |-> "idle", pc |-> "idle", userId |-> "none", requests |-> <<>>, idx |-> 0,
   frames |-> <<>>, results |-> <<>>, error |-> NoError,
   pathId |-> EmptyId, page |-> Undef, limit |-> Undef, snapshot |-> <<>>,
   ret |-> NoReturn, view |-> <<>>, counted |-> <<>>]

Current(call) == call.frames[Len(call.frames)]

SetCurrent(call, frame) ==
  [call EXCEPT !.frames = [call.frames EXCEPT ![Len(call.frames)] = frame]]

\* batchFindPath with results.unshift in place of results.push
Settle_Unshifts(call) ==
  LET frame == Current(call)
      ok == frame.state = "returned"
  IN IF call.op = "find"
     THEN [call EXCEPT !.pc = IF ok THEN "returned" ELSE "threw",
                       !.results = IF ok THEN <<frame.result>> ELSE <<>>,
                       !.error = frame.error]
     ELSE IF ~ok /\ frame.req.k = "null"
     THEN [call EXCEPT !.pc = "threw", !.error = TypeError]
     ELSE [call EXCEPT
             !.results = <<IF ok THEN frame.result
                           ELSE DegenerateResult(frame.req, frame.error)>>
                           \o call.results,
             !.idx = call.idx + 1,
             !.pc = IF call.idx + 1 > Len(call.requests) THEN "returned" ELSE "next"]

(* What the caller of findPath does when the invocation settles.  A direct
   call settles the same way.  In batchFindPath the result or, from the
   catch block, the degenerate result is pushed and the loop goes on; the
   catch block reads request.algorithm, which throws for a null request. *)
Settle(call) ==
  LET frame == Current(call)
      ok == frame.state = "returned"
  IN IF call.op = "find"
     THEN [call EXCEPT !.pc = IF ok THEN "returned" ELSE "threw",
                       !.results = IF ok THEN <<frame.result>> ELSE <<>>,
                       !.error = frame.error]
     ELSE IF ~ok /\ frame.req.k = "null"
     THEN [call EXCEPT !.pc = "threw", !.error = TypeError]
     ELSE [call EXCEPT
             !.results = Append(call.results,
                                IF ok THEN frame.result
                                ELSE DegenerateResult(frame.req, frame.error)),
             !.idx = call.idx + 1,
             !.pc = IF call.idx + 1 > Len(call.requests) THEN "returned" ELSE "next"]

\* push a new findPath invocation and settle it at once if it failed
Invoke(call, frame) ==
  LET c2 == [call EXCEPT !.frames = Append(call.frames, frame), !.pc = "frame"]
  IN IF frame.state = "failed" THEN Settle(c2) ELSE c2

(* ------------------------------ the requests --------------------------- *)

\* latitude above 90, longitude below -180, a string latitude, an undefined
\* longitude
BadPoints ==
  {Point(Num(90 * Deg + 1), Num(0)), Point(Num(0), Num(-180 * Deg - 1)),
   Point(Str, Num(0)), Point(Num(0), Undef)}

Valid1 == Request(NewYork, TimesSquare, "astar", NoOptions)

Valid2 == Request(NewYork, TimesSquare, "dijkstra", Options(Num(2), TRUE))

Valid3 == Request(Corner, NewYork, "bfs", Options(Num(1), FALSE))

BadLat == Request(Point(Num(90 * Deg + 1), Num(0)), TimesSquare, "bfs", NoOptions)

UnknownAlgorithm == Request(NewYork, TimesSquare, "unknown", NoOptions)

NoStart == Request(NoPoint, TimesSquare, "astar", NoOptions)

NullOptionsRequest == Request(NewYork, TimesSquare, "astar", NullOptions)

\* the arguments of the direct findPath calls: a request and its userId
FindInputs ==
  {<<Valid1, "u1">>, <<Valid2, "u2">>, <<Valid3, "u1">>}
    \cup {<<Request(p, TimesSquare, "astar", NoOptions), "u1">> : p \in BadPoints}
    \cup {<<Request(NewYork, p, "dijkstra", NoOptions), "u2">> : p \in BadPoints}
    \cup {<<Request(Point(Num(-90 * Deg - 1), Num(0)), NewYork, "unknown", NoOptions), "u1">>,
          <<Request(NaNPoint, TimesSquare, "astar", NoOptions), "u1">>,
          <<Request(NewYork, Point(Num(0), NaN), "bfs", Options(Num(2), FALSE)), "u2">>,
          <<UnknownAlgorithm, "u1">>,
          <<Request(NewYork, TimesSquare, "", Options(Num(2), TRUE)), "u2">>,
          <<NullOptionsRequest, "u1">>}

\* the arguments of the batchFindPath calls; /batch checks only that
\* requests is an array, so an item can lack a point or be null
BatchInputs ==
  {<<<<>>, "u1">>,
   <<<<Valid3>>, "u1">>,
   <<<<Valid3, UnknownAlgorithm>>, "u2">>,
   <<<<Valid1, BadLat, Valid3>>, "u1">>,
   <<<<NoStart, NullOptionsRequest, BadLat>>, "u2">>,
   <<<<Valid3, NullRequest, Valid1>>, "u1">>}

(* ------------------------------ the actions ---------------------------- *)

\* findPath(request): lines 39-79, up to the add(), under the clock readings
\* clock and the random stream rnd
FindCallAt(c, req, userId, clock, rnd) ==
  /\ calls[c].op = "idle"
  /\ calls' = [calls EXCEPT ![c] =
       Invoke([IdleCall EXCEPT !.op = "find", !.userId = userId,
                               !.requests = <<req>>, !.idx = 1],
              BeginFrame(req, userId, clock[1], clock[2], rnd))]
  /\ UNCHANGED <<probe, auth, loop, paths, events, nextId>>

FindCall(c, req, userId) ==
  \E clock \in ClockReadings, rnd \in RandomStreams : FindCallAt(c, req, userId, clock, rnd)

\* batchFindPath(requests, userId): lines 96-99, 118
BatchCall(c, requests, userId) ==
  /\ calls[c].op = "idle"
  /\ calls' = [calls EXCEPT ![c] =
       [IdleCall EXCEPT !.op = "batch", !.userId = userId, !.requests = requests,
                        !.idx = 1,
                        !.pc = IF requests = <<>> THEN "returned" ELSE "next"]]
  /\ UNCHANGED <<probe, auth, loop, paths, events, nextId>>

\* the loop body of batchFindPath: this.findPath({...request, userId}), line 101
BatchNextAt(c, clock, rnd) ==
  /\ calls[c].pc = "next"
  /\ calls' = [calls EXCEPT ![c] =
       Invoke(calls[c],
              BeginFrame(calls[c].requests[calls[c].idx], calls[c].userId,
                         clock[1], clock[2], rnd))]
  /\ UNCHANGED <<probe, auth, loop, paths, events, nextId>>

BatchNext(c) ==
  \E clock \in ClockReadings, rnd \in RandomStreams : BatchNextAt(c, clock, rnd)

\* add() replaced by doc('1').set(pathDoc): every record takes the same id
RepoCreateOk_FixedId(c) ==
  /\ calls[c].pc = "frame"
  /\ Current(calls[c]).state = "persisting"
  /\ LET frame == Current(calls[c])
         doc == [frame.doc EXCEPT !.createdAt = nextId]
     IN /\ paths' = [id \in DOMAIN paths \cup {1} |-> IF id = 1 THEN doc ELSE paths[id]]
        /\ calls' = [calls EXCEPT ![c] =
             SetCurrent(calls[c],
                        [frame EXCEPT !.state = "logging", !.docId = 1,
                                      !.doc = doc, !.analytics = "pending"])]
  /\ nextId' = nextId + 1
  /\ UNCHANGED <<probe, auth, loop, events>>

\* findPath with its locals kept in fields of the service: the record is
\* built from the userId of whichever call is in flight
RepoCreateOk_SharedLocals(c) ==
  /\ calls[c].pc = "frame"
  /\ Current(calls[c]).state = "persisting"
  /\ LET frame == Current(calls[c])
         other == CHOOSE d \in DOMAIN calls : calls[d].pc = "frame"
         doc == [frame.doc EXCEPT !.createdAt = nextId,
                                  !.userId = Current(calls[other]).userId]
     IN /\ paths' = paths @@ (nextId :> doc)
        /\ calls' = [calls EXCEPT ![c] =
             SetCurrent(calls[c],
                        [frame EXCEPT !.state = "logging", !.docId = nextId,
                                      !.doc = doc, !.analytics = "pending"])]
  /\ nextId' = nextId + 1
  /\ UNCHANGED <<probe, auth, loop, events>>

\* collection('paths').add(pathDoc) commits, line 81; logAnalytics then
\* issues its set(), lines 84, 209-215
RepoCreateOk(c) ==
  /\ calls[c].pc = "frame"
  /\ Current(calls[c]).state = "persisting"
  /\ LET frame == Current(calls[c])
         doc == [frame.doc EXCEPT !.createdAt = nextId]
     IN /\ paths' = paths @@ (nextId :> doc)
        /\ calls' = [calls EXCEPT ![c] =
             SetCurrent(calls[c],
                        [frame EXCEPT !.state = "logging", !.docId = nextId,
                                      !.doc = doc, !.analytics = "pending"])]
  /\ nextId' = nextId + 1
  /\ UNCHANGED <<probe, auth, loop, events>>

\* the add() rejects and the rejection is swallowed: findPath goes on to
\* logAnalytics
RepoCreateFail_Swallowed(c) ==
  /\ calls[c].pc = "frame"
  /\ Current(calls[c]).state = "persisting"
  /\ calls' = [calls EXCEPT ![c] =
       SetCurrent(calls[c],
                  [Current(calls[c]) EXCEPT !.state = "logging",
                                            !.analytics = "pending"])]
  /\ UNCHANGED <<probe, auth, loop, paths, events, nextId>>

\* the add() rejects: findPath throws what the client threw
RepoCreateFail(c) ==
  /\ calls[c].pc = "frame"
  /\ Current(calls[c]).state = "persisting"
  /\ calls' = [calls EXCEPT ![c] =
       Settle(SetCurrent(calls[c],
                         [Current(calls[c]) EXCEPT !.state = "failed",
                                                   !.error = FirestoreError]))]
  /\ UNCHANGED <<probe, auth, loop, paths, events, nextId>>

\* the analytics set() resolves: logAnalytics returns, findPath returns its
\* result, lines 84-93
AnalyticsOk(c) ==
  /\ calls[c].pc = "frame"
  /\ Current(calls[c]).state = "logging"
  /\ LET frame == Current(calls[c])
     IN /\ events' = Append(events, AnalyticsEvent(frame))
        /\ calls' = [calls EXCEPT ![c] =
             Settle(SetCurrent(calls[c],
                               [frame EXCEPT !.state = "returned", !.analytics = "ok",
                                             !.result = ResultOf(frame, frame.docId)]))]
  /\ UNCHANGED <<probe, auth, loop, paths, nextId>>

\* logAnalytics without its catch: the rejection reaches the caller of findPath
AnalyticsFail_Propagates(c) ==
  /\ calls[c].pc = "frame"
  /\ Current(calls[c]).state = "logging"
  /\ calls' = [calls EXCEPT ![c] =
       Settle(SetCurrent(calls[c],
                         [Current(calls[c]) EXCEPT !.state = "failed",
                                                   !.analytics = "failed",
                                                   !.error = FirestoreError]))]
  /\ UNCHANGED <<probe, auth, loop, paths, events, nextId>>

\* the analytics set() rejects: the catch of logAnalytics logs and swallows
\* it, lines 222-225, and findPath returns its result
AnalyticsFail(c) ==
  /\ calls[c].pc = "frame"
  /\ Current(calls[c]).state = "logging"
  /\ LET frame == Current(calls[c])
     IN calls' = [calls EXCEPT ![c] =
          Settle(SetCurrent(calls[c],
                            [frame EXCEPT !.state = "returned", !.analytics = "failed",
                                          !.result = ResultOf(frame, frame.docId)]))]
  /\ UNCHANGED <<probe, auth, loop, paths, events, nextId>>

(* ------------------- get, delete and history: the operators ------------ *)

\* the PathResult of a document, its metadata left out
DocResult_NoMetadata(id, data) ==
  [id |-> id, path |-> data.path, distance |-> data.distance,
   duration |-> data.duration, algorithm |-> data.algorithm,
   metadata |-> NoMetadata]

\* doc.id and doc.data() as a PathResult: lines 139-149 and 172-179
DocResult(id, data) ==
  [id |-> id, path |-> data.path, distance |-> data.distance,
   duration |-> data.duration, algorithm |-> data.algorithm,
   metadata |-> data.metadata]

\* collection('paths').doc(pathId).get(): the snapshot of the document
DocSnapshot(pathId) ==
  IF pathId \in DOMAIN paths
  THEN [exists |-> TRUE, id |-> pathId, data |-> paths[pathId]]
  ELSE [exists |-> FALSE, id |-> pathId, data |-> NoDoc]

\* how a method settles: with a value or with an error
Returned(ret) == [ret |-> ret, error |-> NoError]

Threw(error) == [ret |-> NoReturn, error |-> error]

\* getPath without the test of lines 168-170
getPath_NoCheck(doc, userId) ==
  IF ~doc.exists THEN Returned([NoReturn EXCEPT !.k = "null"])
  ELSE Returned([NoReturn EXCEPT !.k = "result",
                                 !.result = DocResult(doc.id, doc.data)])

\* getPath after its read: lines 161-179
getPath(doc, userId) ==
  IF ~doc.exists THEN Returned([NoReturn EXCEPT !.k = "null"])
  ELSE IF doc.data.userId # userId /\ ~doc.data.isPublic
  THEN Threw(createError("Access denied to this path", 403))
  ELSE Returned([NoReturn EXCEPT !.k = "result",
                                 !.result = DocResult(doc.id, doc.data)])

\* the route handler without the test of lines 307-309
GetRoute_PassesNull(out) == out

\* router.get('/:pathId') after getPath: null becomes a 404, lines 305-309
GetRoute(out) ==
  IF out.error = NoError /\ out.ret.k = "null"
  THEN Threw(createError("Path not found", 404))
  ELSE out

\* deletePath with the test of getPath: a public record passes
deletePath_PublicDeletable(doc, userId) ==
  IF ~doc.exists THEN createError("Path not found", 404)
  ELSE IF doc.data.userId # userId /\ ~doc.data.isPublic
  THEN createError("Access denied to this path", 403)
  ELSE NoError

\* deletePath without the test of lines 186-188: doc.data() is undefined
deletePath_NoExistsCheck(doc, userId) ==
  IF ~doc.exists THEN TypeError
  ELSE IF doc.data.userId # userId
  THEN createError("Access denied to this path", 403)
  ELSE NoError

\* deletePath after its read: the error it throws, or NoError; lines 186-193
deletePath(doc, userId) ==
  IF ~doc.exists THEN createError("Path not found", 404)
  ELSE IF doc.data.userId # userId
  THEN createError("Access denied to this path", 403)
  ELSE NoError

\* the call settled with out
SettleWith(call, out) ==
  [call EXCEPT !.pc = IF out.error = NoError THEN "returned" ELSE "threw",
               !.ret = out.ret, !.error = out.error]

(* page and limit are JavaScript numbers: the route passes Number(page) and
   Number(limit).  Half(v) is the fractional number v + 0.5. *)
Half(v) == [k |-> "half", v |-> v]

IsFinite(x) == x.k \in {"num", "half"}

\* Number.isInteger
IsInteger(x) == x.k = "num"

\* twice a finite number, an integer
Twice(x) == IF x.k = "half" THEN 2 * x.v + 1 ELSE 2 * x.v

\* the number that is q quarters, for an even q
FromQuarters(q) ==
  CASE q % 4 = 0 -> Num(q \div 4)
    [] q % 4 = 2 -> Half((q - 2) \div 4)

\* const offset = (page - 1) * limit, line 122
Offset(page, limit) ==
  IF IsFinite(page) /\ IsFinite(limit)
  THEN FromQuarters((Twice(page) - 2) * Twice(limit))
  ELSE NaN

DefaultPage == 1

DefaultLimit == 20

\* a default parameter: the default replaces undefined only
OrDefault(x, dflt) == IF x = Undef THEN Num(dflt) ELSE x

\* Query.limit(n) and Query.offset(n) of the Firestore client throw on an
\* argument that is not an integer, before any request is sent
ArgumentError == [k |-> "Error", status |-> 0, message |-> "not a valid integer"]

BuildQuery(limit, offset) ==
  IF IsInteger(limit) /\ IsInteger(offset) THEN NoError ELSE ArgumentError

\* where('userId', '==', userId): the ids of the user's documents
OwnedIds(userId) == {id \in DOMAIN paths : paths[id].userId = userId}

\* orderBy('createdAt', 'asc')
Rank_Ascending(id, ids) ==
  Cardinality({j \in ids : paths[j].createdAt < paths[id].createdAt}) + 1

\* orderBy('createdAt', 'desc'): the position of id among ids
Rank(id, ids) ==
  Cardinality({j \in ids : paths[j].createdAt > paths[id].createdAt}) + 1

Ordered(ids) == [k \in 1..Cardinality(ids) |-> CHOOSE id \in ids : Rank(id, ids) = k]

\* .limit(limit).offset(offset) on an ordered result
Slice(seq, offset, limit) ==
  IF offset >= Len(seq) \/ limit = 0 THEN <<>>
  ELSE SubSeq(seq, offset + 1, IF offset + limit < Len(seq) THEN offset + limit
                                                           ELSE Len(seq))

\* pathsQuery.get(), lines 124-131: the documents of the page; the backend
\* rejects a negative limit or offset
RunPageQuery(userId, limit, offset) ==
  IF limit.v < 0 \/ offset.v < 0 THEN Threw(FirestoreError)
  ELSE Returned([NoReturn EXCEPT !.k = "history",
         !.paths = [k \in DOMAIN Slice(Ordered(OwnedIds(userId)), offset.v, limit.v) |->
                      DocSnapshot(Slice(Ordered(OwnedIds(userId)), offset.v, limit.v)[k])]])

\* total taken from the page: snapshot.size instead of countSnapshot.size
HistoryResult_PageTotal(docs, size) ==
  [NoReturn EXCEPT !.k = "history",
                   !.paths = [k \in DOMAIN docs |-> DocResult(docs[k].id, docs[k].data)],
                   !.total = Len(docs)]

\* snapshot.docs.map(...) and countSnapshot.size, lines 139-154
HistoryResult(docs, size) ==
  [NoReturn EXCEPT !.k = "history",
                   !.paths = [k \in DOMAIN docs |-> DocResult(docs[k].id, docs[k].data)],
                   !.total = size]

(* ------------------- get, delete and history: the actions -------------- *)

\* GET /:pathId: getPath(pathId, userId) up to its await, lines 157-159
GetCall(c, pathId, userId) ==
  /\ calls[c].op = "idle"
  /\ calls' = [calls EXCEPT ![c] =
       [IdleCall EXCEPT !.op = "get", !.pc = "reading", !.userId = userId,
                        !.pathId = pathId]]
  /\ UNCHANGED <<probe, auth, loop, paths, events, nextId>>

\* docRef.get() resolves; the rest of getPath and of the route handler
GetRead(c) ==
  /\ calls[c].op = "get"
  /\ calls[c].pc = "reading"
  /\ calls' = [calls EXCEPT ![c] =
       SettleWith([calls[c] EXCEPT !.view = paths],
                  GetRoute(getPath(DocSnapshot(calls[c].pathId), calls[c].userId)))]
  /\ UNCHANGED <<probe, auth, loop, paths, events, nextId>>

\* DELETE /:pathId: deletePath(pathId, userId) up to its first await,
\* lines 182-184
DeleteCall(c, pathId, userId) ==
  /\ calls[c].op = "idle"
  /\ calls' = [calls EXCEPT ![c] =
       [IdleCall EXCEPT !.op = "delete", !.pc = "reading", !.userId = userId,
                        !.pathId = pathId]]
  /\ UNCHANGED <<probe, auth, loop, paths, events, nextId>>

\* docRef.get() resolves: deletePath throws or issues docRef.delete()
DeleteRead(c) ==
  /\ calls[c].op = "delete"
  /\ calls[c].pc = "reading"
  /\ LET error == deletePath(DocSnapshot(calls[c].pathId), calls[c].userId)
     IN calls' = [calls EXCEPT ![c] =
          IF error = NoError THEN [calls[c] EXCEPT !.pc = "deleting", !.view = paths]
          ELSE SettleWith([calls[c] EXCEPT !.view = paths], Threw(error))]
  /\ UNCHANGED <<probe, auth, loop, paths, events, nextId>>

\* deletePath without line 195
DeleteCommit_Noop(c) ==
  /\ calls[c].op = "delete"
  /\ calls[c].pc = "deleting"
  /\ calls' = [calls EXCEPT ![c] =
       SettleWith(calls[c], Returned([NoReturn EXCEPT !.k = "void"]))]
  /\ UNCHANGED <<probe, auth, loop, paths, events, nextId>>

\* docRef.delete() commits, line 195: the document is gone (deleting a
\* document that is already gone succeeds as well)
DeleteCommit(c) ==
  /\ calls[c].op = "delete"
  /\ calls[c].pc = "deleting"
  /\ paths' = [id \in DOMAIN paths \ {calls[c].pathId} |-> paths[id]]
  /\ calls' = [calls EXCEPT ![c] =
       SettleWith(calls[c], Returned([NoReturn EXCEPT !.k = "void"]))]
  /\ UNCHANGED <<probe, auth, loop, events, nextId>>

\* GET /history: getPathHistory(userId, page, limit) up to its first await,
\* lines 121-131
HistoryCall(c, userId, page, limit) ==
  /\ calls[c].op = "idle"
  /\ LET p == OrDefault(page, DefaultPage)
         l == OrDefault(limit, DefaultLimit)
         call == [IdleCall EXCEPT !.op = "history", !.pc = "reading",
                                  !.userId = userId, !.page = p, !.limit = l]
         error == BuildQuery(l, Offset(p, l))
     IN calls' = [calls EXCEPT ![c] =
          IF error = NoError THEN call ELSE SettleWith(call, Threw(error))]
  /\ UNCHANGED <<probe, auth, loop, paths, events, nextId>>

\* pathsQuery.get() resolves, line 131; the count query is issued, line 137
HistoryRead(c) ==
  /\ calls[c].op = "history"
  /\ calls[c].pc = "reading"
  /\ LET out == RunPageQuery(calls[c].userId, calls[c].limit,
                             Offset(calls[c].page, calls[c].limit))
     IN calls' = [calls EXCEPT ![c] =
          IF out.error = NoError
          THEN [calls[c] EXCEPT !.pc = "counting", !.snapshot = out.ret.paths,
                                !.view = paths]
          ELSE SettleWith(calls[c], out)]
  /\ UNCHANGED <<probe, auth, loop, paths, events, nextId>>

\* countQuery.get() resolves, line 137; getPathHistory returns, lines 139-154
HistoryCount(c) ==
  /\ calls[c].op = "history"
  /\ calls[c].pc = "counting"
  /\ calls' = [calls EXCEPT ![c] =
       SettleWith([calls[c] EXCEPT !.counted = paths],
                  Returned(HistoryResult(calls[c].snapshot,
                                         Cardinality(OwnedIds(calls[c].userId)))))]
  /\ UNCHANGED <<probe, auth, loop, paths, events, nextId>>

\* a get() or delete() of the repository rejects: the method throws it
RepoIoFail(c) ==
  /\ calls[c].pc \in {"reading", "counting", "deleting"}
  /\ calls' = [calls EXCEPT ![c] = SettleWith(calls[c], Threw(FirestoreError))]
  /\ UNCHANGED <<probe, auth, loop, paths, events, nextId>>

\* the caller has taken the outcome of a settled call; the next call begins
Release(c) ==
  /\ calls[c].pc \in {"returned", "threw"}
  /\ calls' = [calls EXCEPT ![c] = IdleCall]
  /\ UNCHANGED <<probe, auth, loop, paths, events, nextId>>

(* ------------------------------ middleware/auth.ts --------------------- *)

(* One request passing through authMiddleware.  env and bypass are
   process.env.NODE_ENV and process.env.BYPASS_AUTH ("undefined" when not
   set); header is req.headers.authorization; pc is "start", "verifying"
   (verifyIdToken in flight) or "done"; user is req.user; nextCalls and
   nextArg record the calls of next and the argument of the last one. *)
NoHeader == [k |-> "undefined", scheme |-> "", token |-> ""]

\* the header "<scheme> <token>"
Header(scheme, token) == [k |-> "string", scheme |-> scheme, token |-> token]

NoAuth ==
  [env |-> "undefined", bypass |-> "undefined", header |-> NoHeader, pc |-> "none",
   user |-> "undefined", nextCalls |-> 0, nextArg |-> NoError]

\* the test of line 28
BypassEnabled(env, bypass) == env = "development" /\ bypass = "true"

\* lines 38-46: the error thrown before verifyIdToken, or NoError
CheckHeader(header) ==
  IF header.k = "undefined" \/ header.scheme # "Bearer"
  THEN createError("No valid authorization header", 401)
  ELSE IF header.token = "" THEN createError("No token provided", 401)
  ELSE NoError

\* what verifyIdToken rejects with: an Error of the Firebase SDK
TokenRejection == [k |-> "Error", status |-> 0, message |-> "auth/argument-error"]

\* error instanceof Error
InstanceOfError(error) == error.k \in {"http", "Error", "TypeError", "FirestoreError"}

\* the catch block, lines 52-58: the argument next is called with
CatchAuth(error) ==
  IF InstanceOfError(error) THEN createError("Invalid or expired token", 401)
  ELSE createError("Authentication failed", 401)

\* next(arg), after which the middleware is done
CallNext(a, arg) ==
  [a EXCEPT !.pc = "done", !.nextCalls = a.nextCalls + 1, !.nextArg = arg]

\* authMiddleware up to its await, lines 26-49
AuthEnter ==
  /\ auth.pc = "start"
  /\ auth' = IF BypassEnabled(auth.env, auth.bypass)
             THEN CallNext([auth EXCEPT !.user = "dev-user"], NoError)
             ELSE IF CheckHeader(auth.header) # NoError
             THEN CallNext(auth, CatchAuth(CheckHeader(auth.header)))
             ELSE [auth EXCEPT !.pc = "verifying"]
  /\ UNCHANGED <<probe, loop, svcVars>>

\* verifyIdToken resolves, for a token that is valid: lines 49-52
AuthVerifyOk ==
  /\ auth.pc = "verifying"
  /\ auth.header.token = "good"
  /\ auth' = CallNext([auth EXCEPT !.user = "decoded"], NoError)
  /\ UNCHANGED <<probe, loop, svcVars>>

\* verifyIdToken rejects, for a token that is not valid: lines 49, 53-58
AuthVerifyFail ==
  /\ auth.pc = "verifying"
  /\ auth.header.token # "good"
  /\ auth' = CallNext(auth, CatchAuth(TokenRejection))
  /\ UNCHANGED <<probe, loop, svcVars>>

(* ------------------ the waypoint loop, iteration by iteration ---------- *)

(* One run of calculateAStarPath, calculateDijkstraPath or calculateBFSPath:
   option is options.steps as passed, steps the loop's bound, i the loop
   variable, len is path.length; pc is "start", "loop", "done" (the path is
   returned), "threw" or "aborted" (the process has died). *)
Infinity == [k |-> "inf", v |-> 0]

NoLoop ==
  [algorithm |-> "none", option |-> Undef, steps |-> Undef, i |-> 0, len |-> 0,
   pc |-> "none"]

\* the elements the heap has room for
HeapLimit == 20

DefaultSteps(algorithm) ==
  CASE algorithm = "astar" -> DefaultStepsAStar
    [] algorithm = "dijkstra" -> DefaultStepsDijkstra
    [] algorithm = "bfs" -> DefaultStepsBFS

\* x || dflt on a number: 0, NaN and undefined are falsy
NumberOr(x, dflt) ==
  IF x.k \in {"undef", "nan"} \/ x = Num(0) THEN Num(dflt) ELSE x

\* i < x for an integer i
IntLess(i, x) ==
  CASE x.k = "num" -> i < x.v
    [] x.k = "half" -> i <= x.v
    [] x.k = "inf" -> TRUE
    [] OTHER -> FALSE

\* const steps = options.steps || 10; const path = [start]; let i = 1
LoopEnter ==
  /\ loop.pc = "start"
  /\ loop' = [loop EXCEPT !.pc = "loop", !.i = 1, !.len = 1,
                          !.steps = NumberOr(loop.option, DefaultSteps(loop.algorithm))]
  /\ UNCHANGED <<probe, auth, svcVars>>

\* i < steps holds: path.push({lat, lng}); i++
LoopIterate ==
  /\ loop.pc = "loop"
  /\ IntLess(loop.i, loop.steps)
  /\ loop.len < HeapLimit
  /\ loop' = [loop EXCEPT !.i = loop.i + 1, !.len = loop.len + 1]
  /\ UNCHANGED <<probe, auth, svcVars>>

\* i < steps holds and the array cannot grow: the allocation aborts the
\* process (heap out of memory) or push throws a RangeError
LoopOverflow ==
  /\ loop.pc = "loop"
  /\ IntLess(loop.i, loop.steps)
  /\ loop.len >= HeapLimit
  /\ \E outcome \in {"aborted", "threw"} : loop' = [loop EXCEPT !.pc = outcome]
  /\ UNCHANGED <<probe, auth, svcVars>>

\* i < steps fails: path.push(end); return path
LoopExit ==
  /\ loop.pc = "loop"
  /\ ~IntLess(loop.i, loop.steps)
  /\ loop' = [loop EXCEPT !.pc = "done", !.len = loop.len + 1]
  /\ UNCHANGED <<probe, auth, svcVars>>

(* --------------------------- the specifications ------------------------ *)

\* the service after construction: no call, empty collections
ServiceInit ==
  /\ calls = [c \in CallIds |-> IdleCall]
  /\ paths = <<>>
  /\ events = <<>>
  /\ nextId = 1

Init ==
  /\ probe = NoProbe
  /\ auth = NoAuth
  /\ loop = NoLoop
  /\ ServiceInit

Next ==
  \/ \E c \in CallIds, in \in FindInputs : FindCall(c, in[1], in[2])
  \/ \E c \in CallIds, in \in BatchInputs : BatchCall(c, in[1], in[2])
  \/ \E c \in CallIds : BatchNext(c)
  \/ \E c \in CallIds : RepoCreateOk(c)
  \/ \E c \in CallIds : RepoCreateFail(c)
  \/ \E c \in CallIds : AnalyticsOk(c)
  \/ \E c \in CallIds : AnalyticsFail(c)

Spec == Init /\ [][Next]_vars

\* The event loop runs every continuation that is ready and the repository
\* answers every add(); nothing is assumed of the analytics sink.
FairSpec ==
  /\ Spec
  /\ \A c \in CallIds : WF_vars(BatchNext(c))
  /\ \A c \in CallIds : WF_vars(RepoCreateOk(c) \/ RepoCreateFail(c))

\* the strategies called directly, each twice on the same arguments
StrategyInit ==
  /\ probe \in {[NoProbe EXCEPT !.algorithm = a, !.start = s, !.end = e, !.options = o] :
                  a \in Algorithms, s \in ProbePoints, e \in ProbePoints,
                  o \in ProbeOptions}
  /\ auth = NoAuth
  /\ loop = NoLoop
  /\ ServiceInit

StrategyNext == ProbeFirst \/ ProbeSecond

StrategySpec == StrategyInit /\ [][StrategyNext]_vars

(* The service used over time: calls follow one another, records
   accumulate up to MaxPaths and are read, listed and deleted.  The clock
   and the random stream are fixed and the analytics sink is in order:
   they decide nothing about the records. *)
MaxPaths == 3

\* the ids a caller asks for: those of the records and one never assigned
PathIds == 1..(MaxPaths + 1)

UserIds == {"u1", "u2"}

PublicBFS == Request(TimesSquare, NewYork, "bfs", Options(Num(1), TRUE))

RepoFindInputs == {<<Valid1, "u1">>, <<PublicBFS, "u2">>}

RepoBatchInputs == {<<<<PublicBFS, BadLat>>, "u1">>}

\* userId, page, limit; the first line is positive integers and the defaults
HistoryInputs ==
  {<<u, Num(p), Num(2)>> : u \in UserIds, p \in 1..3}
    \cup {<<"u1", Num(2), Num(1)>>, <<"u1", Undef, Undef>>}
    \cup {<<"u1", Num(0), Num(2)>>, <<"u1", Num(-1), Num(2)>>, <<"u1", Half(1), Num(2)>>,
          <<"u1", Half(1), Num(1)>>, <<"u1", NaN, Num(2)>>, <<"u1", Num(1), Num(-1)>>,
          <<"u1", Num(1), Half(1)>>, <<"u1", Num(1), NaN>>}

RepoNext ==
  \/ \E c \in CallIds, in \in RepoFindInputs :
       FindCallAt(c, in[1], in[2], <<0, 0>>, <<0>>)
  \/ \E c \in CallIds, in \in RepoBatchInputs : BatchCall(c, in[1], in[2])
  \/ \E c \in CallIds : BatchNextAt(c, <<0, 0>>, <<0>>)
  \/ \E c \in CallIds : nextId <= MaxPaths /\ RepoCreateOk(c)
  \/ \E c \in CallIds : RepoCreateFail(c)
  \/ \E c \in CallIds : AnalyticsOk(c)
  \/ \E c \in CallIds, id \in PathIds, u \in UserIds : GetCall(c, id, u)
  \/ \E c \in CallIds : GetRead(c)
  \/ \E c \in CallIds, id \in PathIds, u \in UserIds : DeleteCall(c, id, u)
  \/ \E c \in CallIds : DeleteRead(c)
  \/ \E c \in CallIds : DeleteCommit(c)
  \/ \E c \in CallIds, in \in HistoryInputs : HistoryCall(c, in[1], in[2], in[3])
  \/ \E c \in CallIds : HistoryRead(c)
  \/ \E c \in CallIds : HistoryCount(c)
  \/ \E c \in CallIds : RepoIoFail(c)
  \/ \E c \in CallIds : Release(c)

RepoSpec == Init /\ [][RepoNext]_vars

(* haversineDistance called directly.  The three strategies carry the same
   text of it (AStar.ts 71-82, Dijkstra.ts 159-170, BFS.ts 60-71); the probe
   names the strategy whose copy is called. *)
GridLat == {Num(d * Deg) : d \in {-90, -45, 0, 45, 90}} \cup {NewYork.lat}

GridLng == {Num(d * Deg) : d \in {-180, -74, 0, 180}} \cup {NewYork.lng}

\* the valid points the function is called on
GridPoints == {Point(lat, lng) : lat \in GridLat, lng \in GridLng}

\* a point with itself, with New York and with its mirror image
DistanceInit ==
  /\ probe \in UNION {{[NoProbe EXCEPT !.algorithm = a, !.start = p, !.end = q] :
                         a \in Algorithms,
                         q \in {p, NewYork, Point(Num(-p.lat.v), p.lng)}} :
                       p \in GridPoints}
  /\ auth = NoAuth
  /\ loop = NoLoop
  /\ ServiceInit

DistanceCall ==
  /\ probe.algorithm \in Algorithms
  /\ probe.first.k = "none"
  /\ probe' = [probe EXCEPT !.first =
       [NoOutcome EXCEPT !.k = "ok", !.path = <<probe.start, probe.end>>,
                         !.distance = haversineDistance(probe.start, probe.end)]]
  /\ UNCHANGED <<auth, loop, svcVars>>

DistanceNext == DistanceCall

DistanceSpec == DistanceInit /\ [][DistanceNext]_vars

(* Requests through authMiddleware under every environment. *)
NodeEnvs == {"test", "development", "production", "undefined"}

BypassValues == {"true", "false", "undefined"}

\* no header, another scheme, Bearer without a token, with a token that
\* does not verify, with one that does
AuthHeaders ==
  {NoHeader, Header("Basic", "good"), Header("Bearer", ""), Header("Bearer", "bad"),
   Header("Bearer", "good")}

AuthInit ==
  /\ probe = NoProbe
  /\ loop = NoLoop
  /\ auth \in {[NoAuth EXCEPT !.env = e, !.bypass = b, !.header = h, !.pc = "start"] :
                 e \in NodeEnvs, b \in BypassValues, h \in AuthHeaders}
  /\ ServiceInit

AuthNext == AuthEnter \/ AuthVerifyOk \/ AuthVerifyFail

AuthSpec == AuthInit /\ [][AuthNext]_vars

(* The waypoint loop under every kind of options.steps: absent, zero,
   negative, whole, fractional, NaN, Infinity. *)
LoopSteps ==
  {Undef, NaN, Infinity, Half(2), Num(-1), Num(0), Num(1), Num(2), Num(5), Num(12)}

LoopInit ==
  /\ probe = NoProbe
  /\ auth = NoAuth
  /\ loop \in {[NoLoop EXCEPT !.algorithm = a, !.option = o, !.pc = "start"] :
                 a \in Algorithms, o \in LoopSteps}
  /\ ServiceInit

LoopNext == LoopEnter \/ LoopIterate \/ LoopOverflow \/ LoopExit

LoopSpec == LoopInit /\ [][LoopNext]_vars

\* the loop is synchronous code: it runs on while it can
FairLoopSpec == LoopSpec /\ WF_vars(LoopNext)

(* Calls that overlap: the routes share one PathfindingService, and every
   await of a call lets the others run.  MaxConcurrent calls are in flight
   at once, each made once. *)
MaxConcurrent == 2

ConcurrentIds == 1..MaxConcurrent

ConcurrentInit ==
  /\ probe = NoProbe
  /\ auth = NoAuth
  /\ loop = NoLoop
  /\ calls = [c \in ConcurrentIds |-> IdleCall]
  /\ paths = <<>>
  /\ events = <<>>
  /\ nextId = 1

\* concurrent findPath calls of two owners, one of them twice
ConcurrentFindInputs == {<<Valid1, "u1">>, <<Valid3, "u1">>, <<PublicBFS, "u2">>}

ConcurrentFindNext ==
  \/ \E c \in ConcurrentIds, in \in ConcurrentFindInputs :
       FindCallAt(c, in[1], in[2], <<0, 0>>, <<0>>)
  \/ \E c \in ConcurrentIds : RepoCreateOk(c)
  \/ \E c \in ConcurrentIds : RepoCreateFail(c)
  \/ \E c \in ConcurrentIds : AnalyticsOk(c)
  \/ \E c \in ConcurrentIds : AnalyticsFail(c)

ConcurrentFindSpec == ConcurrentInit /\ [][ConcurrentFindNext]_vars

(* Overlapping calls on the records of one owner: findPath creates up to
   MaxShared records while deletePath and getPathHistory calls are in
   flight. *)
MaxShared == 2

ConcurrentRepoNext ==
  \/ \E c \in ConcurrentIds : FindCallAt(c, Valid1, "u1", <<0, 0>>, <<0>>)
  \/ \E c \in ConcurrentIds : nextId <= MaxShared /\ RepoCreateOk(c)
  \/ \E c \in ConcurrentIds : AnalyticsOk(c)
  \/ \E c \in ConcurrentIds, id \in 1..MaxShared : DeleteCall(c, id, "u1")
  \/ \E c \in ConcurrentIds : DeleteRead(c)
  \/ \E c \in ConcurrentIds : DeleteCommit(c)
  \/ \E c \in ConcurrentIds : HistoryCall(c, "u1", Num(1), Num(MaxShared))
  \/ \E c \in ConcurrentIds : HistoryRead(c)
  \/ \E c \in ConcurrentIds : HistoryCount(c)
  \/ \E c \in ConcurrentIds : Release(c)

ConcurrentRepoSpec == ConcurrentInit /\ [][ConcurrentRepoNext]_vars

(* A findPath result compared with what getPath and getPathHistory return
   later: the call that found keeps its result while other calls of the
   owner read, list, create and delete. *)
RoundTripInputs == {<<Valid1, "u1">>, <<Valid3, "u1">>}

\* userId, page, limit of the history calls
RoundTripPages == {<<"u1", Num(p), Num(1)>> : p \in 1..MaxShared}

RoundTripNext ==
  \/ \E c \in ConcurrentIds, in \in RoundTripInputs :
       FindCallAt(c, in[1], in[2], <<0, 1>>, <<0>>)
  \/ \E c \in ConcurrentIds : nextId <= MaxShared /\ RepoCreateOk(c)
  \/ \E c \in ConcurrentIds : AnalyticsOk(c)
  \/ \E c \in ConcurrentIds, id \in 1..MaxShared : GetCall(c, id, "u1")
  \/ \E c \in ConcurrentIds : GetRead(c)
  \/ \E c \in ConcurrentIds, in \in RoundTripPages : HistoryCall(c, in[1], in[2], in[3])
  \/ \E c \in ConcurrentIds : HistoryRead(c)
  \/ \E c \in ConcurrentIds : HistoryCount(c)
  \/ \E c \in ConcurrentIds, id \in 1..MaxShared : DeleteCall(c, id, "u1")
  \/ \E c \in ConcurrentIds : DeleteRead(c)
  \/ \E c \in ConcurrentIds : DeleteCommit(c)
  \/ \E c \in ConcurrentIds : Release(c)

RoundTripSpec == ConcurrentInit /\ [][RoundTripNext]_vars

(* ------------------------------- the claims ---------------------------- *)

\* the findPath invocations made so far, as <<call, index>>
FrameIds == UNION {{<<c, i>> : i \in 1..Len(calls[c].frames)} : c \in CallIds}

FrameOf(ci) == calls[ci[1]].frames[ci[2]]

Last(seq) == seq[Len(seq)]

\* C1: every findPath invocation that has returned, whatever the algorithm
\* and options.steps, returned a path whose first element is the request's
\* start and whose last element is the request's end.
C1_PathEndpoints ==
  \A ci \in FrameIds :
    FrameOf(ci).state = "returned" =>
      /\ Len(FrameOf(ci).result.path) >= 2
      /\ FrameOf(ci).result.path[1] = FrameOf(ci).req.start
      /\ Last(FrameOf(ci).result.path) = FrameOf(ci).req.end

C1_Witness ==
  \E ci \in FrameIds :
    /\ FrameOf(ci).state = "returned"
    /\ FrameOf(ci).req.algorithm = "astar"
    /\ Len(FrameOf(ci).result.path) = 11
    /\ FrameOf(ci).result.path[2] # FrameOf(ci).req.start

\* C2: two invocations of one strategy on identical start, end and options
\* return paths of identical length and an identical distance.
C2_Deterministic ==
  (probe.first.k = "ok" /\ probe.second.k = "ok") =>
    /\ Len(probe.first.path) = Len(probe.second.path)
    /\ probe.first.distance = probe.second.distance

\* C3: for a positive integer options.steps a strategy returns steps + 1
\* points; without options.steps A* returns 11, Dijkstra 16 and BFS 9.
C3_PathLength ==
  \A out \in {probe.first, probe.second} :
    out.k = "ok" =>
      /\ (probe.options.steps.k = "num" /\ probe.options.steps.v > 0) =>
           Len(out.path) = probe.options.steps.v + 1
      /\ probe.options.steps = Undef =>
           Len(out.path) = CASE probe.algorithm = "astar" -> 11
                             [] probe.algorithm = "dijkstra" -> 16
                             [] probe.algorithm = "bfs" -> 9

C3_Witness ==
  /\ probe.algorithm = "dijkstra"
  /\ probe.options.steps = Num(5)
  /\ probe.first.k = "ok"
  /\ probe.second.k = "ok"
  /\ Len(probe.second.path) = 6

\* a coordinate that is a number of the range [lo, hi]
InRange(x, lo, hi) == x.k = "num" /\ lo <= x.v /\ x.v <= hi

\* a point of the request whose lat or lng is not a number of its range
OutOfRange(point) ==
  /\ point.k = "point"
  /\ \/ ~InRange(point.lat, -90 * Deg, 90 * Deg)
     \/ ~InRange(point.lng, -180 * Deg, 180 * Deg)

\* C4: a findPath whose start or end has a lat outside [-90, 90], a lng
\* outside [-180, 180] or a non-numeric lat/lng fails with status 400, having
\* invoked no strategy, persisted no record and emitted no analytics event.
C4_InvalidCoordinatesRejected ==
  \A ci \in FrameIds :
    (OutOfRange(FrameOf(ci).req.start) \/ OutOfRange(FrameOf(ci).req.end)) =>
      /\ FrameOf(ci).state = "failed"
      /\ FrameOf(ci).error.status = 400
      /\ FrameOf(ci).strategyRuns = 0
      /\ FrameOf(ci).docId = EmptyId
      /\ FrameOf(ci).analytics = "none"

\* C5: a findPath whose request has both points and an algorithm other than
\* astar, dijkstra, bfs fails with status 400, having invoked no strategy and
\* persisted no record; every record has one of the three algorithms.
C5_UnknownAlgorithmRejected ==
  /\ \A ci \in FrameIds :
       (/\ FrameOf(ci).req.start.k = "point"
        /\ FrameOf(ci).req.end.k = "point"
        /\ FrameOf(ci).req.algorithm \notin {"astar", "dijkstra", "bfs"}) =>
         /\ FrameOf(ci).state = "failed"
         /\ FrameOf(ci).error.k = "http"
         /\ FrameOf(ci).error.status = 400
         /\ FrameOf(ci).strategyRuns = 0
         /\ FrameOf(ci).docId = EmptyId
  /\ \A id \in DOMAIN paths : paths[id].algorithm \in {"astar", "dijkstra", "bfs"}

C5_Witness ==
  \E ci \in FrameIds :
    /\ FrameOf(ci).req.algorithm = "unknown"
    /\ FrameOf(ci).error.message = "Unsupported algorithm: unknown"
    /\ paths # <<>>

\* the invocations of a step's next state
FrameIdsNext == UNION {{<<c, i>> : i \in 1..Len(calls'[c].frames)} : c \in CallIds}

FrameOfNext(ci) == calls'[ci[1]].frames[ci[2]]

\* the invocation exists before the step
Old(ci) == ci[2] <= Len(calls[ci[1]].frames)

\* the step in which the invocation's add() commits
Creates(ci) ==
  /\ FrameOfNext(ci).docId # EmptyId
  /\ ~Old(ci) \/ FrameOf(ci).docId = EmptyId

\* the step in which the invocation fails
Fails(ci) ==
  /\ FrameOfNext(ci).state = "failed"
  /\ ~Old(ci) \/ FrameOf(ci).state # "failed"

C6_State ==
  \A ci \in FrameIds :
    /\ FrameOf(ci).state = "returned" =>
         /\ FrameOf(ci).docId # EmptyId
         /\ FrameOf(ci).result.id = FrameOf(ci).docId
         /\ FrameOf(ci).doc.userId = FrameOf(ci).userId
         /\ FrameOf(ci).doc.start = FrameOf(ci).req.start
         /\ FrameOf(ci).doc.end = FrameOf(ci).req.end
         /\ FrameOf(ci).doc.algorithm = FrameOf(ci).req.algorithm
         /\ FrameOf(ci).doc.path = FrameOf(ci).result.path
         /\ FrameOf(ci).doc.distance = FrameOf(ci).result.distance
    /\ FrameOf(ci).state = "failed" => FrameOf(ci).docId = EmptyId
    /\ \A cj \in FrameIds :
         (FrameOf(ci).docId # EmptyId /\ FrameOf(ci).docId = FrameOf(cj).docId) => ci = cj

C6_Step ==
  /\ \A ci \in FrameIdsNext :
       /\ Creates(ci) =>
            /\ FrameOfNext(ci).docId \notin DOMAIN paths
            /\ DOMAIN paths' = DOMAIN paths \cup {FrameOfNext(ci).docId}
            /\ paths'[FrameOfNext(ci).docId] = FrameOfNext(ci).doc
            /\ \A id \in DOMAIN paths : paths'[id] = paths[id]
       /\ Fails(ci) => paths' = paths
       /\ (Old(ci) /\ FrameOf(ci).docId # EmptyId) =>
            /\ FrameOfNext(ci).docId = FrameOf(ci).docId
            /\ FrameOfNext(ci).doc = FrameOf(ci).doc
  /\ (DOMAIN paths' \ DOMAIN paths # {}) => \E ci \in FrameIdsNext : Creates(ci)

\* C6: a findPath that returns has created exactly one record, which carries
\* the request's userId, start, end and algorithm and the returned path and
\* distance, and the returned id is that record's id; the step that creates
\* it adds that one record and changes no other; a findPath that fails has
\* created no record, and the step in which it fails changes no record.
C6_OneRecordPerFind == []C6_State /\ [][C6_Step]_vars

C6_Witness ==
  \E c \in CallIds :
    /\ Len(calls[c].frames) >= 2
    /\ calls[c].frames[1].state = "returned"
    /\ calls[c].frames[2].state = "failed"
    /\ calls[c].frames[1].docId \in DOMAIN paths
    /\ paths[calls[c].frames[1].docId].userId = calls[c].userId

\* C7: an invocation whose analytics write failed has returned its result
\* with the id of its record, to the caller of findPath and, in a batch, at
\* its index of the results; an invocation that failed, and so every call
\* that threw and every degenerate result, never got as far as the analytics
\* write.
C7_AnalyticsFailureSwallowed ==
  /\ \A ci \in FrameIds :
       /\ FrameOf(ci).analytics = "failed" =>
            /\ FrameOf(ci).state = "returned"
            /\ FrameOf(ci).result.id = FrameOf(ci).docId
            /\ FrameOf(ci).docId # EmptyId
            /\ Len(calls[ci[1]].results) >= ci[2]
            /\ calls[ci[1]].results[ci[2]] = FrameOf(ci).result
       /\ FrameOf(ci).state = "failed" => FrameOf(ci).analytics = "none"
       /\ (Len(calls[ci[1]].results) >= ci[2] /\ calls[ci[1]].results[ci[2]].id = EmptyId) =>
            FrameOf(ci).analytics = "none"
  /\ \A c \in CallIds :
       calls[c].pc = "threw" =>
         /\ Current(calls[c]).state = "failed"
         /\ Current(calls[c]).analytics = "none"

C7_Witness ==
  \E ci \in FrameIds :
    /\ FrameOf(ci).analytics = "failed"
    /\ calls[ci[1]].op = "batch"
    /\ calls[ci[1]].pc = "returned"
    /\ calls[ci[1]].results[ci[2]].id # EmptyId

\* the step in which the invocation returns
Returns(ci) ==
  /\ FrameOfNext(ci).state = "returned"
  /\ ~Old(ci) \/ FrameOf(ci).state # "returned"

\* the call is inside a findPath that awaits the analytics write
AwaitsAnalytics(c) == calls[c].pc = "frame" /\ Current(calls[c]).state = "logging"

\* C8: once the record is persisted findPath returns, whether or not the
\* analytics sink ever completes the write, and findPath returns while the
\* write is still in flight, never in consequence of its completion.
C8_FireAndForget ==
  /\ \A c \in CallIds : AwaitsAnalytics(c) ~> ~AwaitsAnalytics(c)
  /\ [][\A ci \in FrameIdsNext : Returns(ci) => FrameOfNext(ci).analytics = "pending"]_vars

\* C9: a batch of request objects never throws, and a batch that has
\* returned has one result per request, in the order of the requests: result i is the outcome of the findPath on request i, with
\* that request's algorithm and, when it succeeded, a path from that
\* request's start to its end.  Before that the results are a prefix.
C9_BatchOrder ==
  \A c \in CallIds :
    calls[c].op = "batch" =>
      /\ calls[c].pc = "threw" => Current(calls[c]).req.k = "null"
      /\ calls[c].pc = "returned" => Len(calls[c].results) = Len(calls[c].requests)
      /\ calls[c].pc \in {"next", "returned"} => Len(calls[c].results) = Len(calls[c].frames)
      /\ Len(calls[c].results) <= Len(calls[c].frames)
      /\ Len(calls[c].frames) <= Len(calls[c].requests)
      /\ \A i \in 1..Len(calls[c].frames) : calls[c].frames[i].req = calls[c].requests[i]
      /\ \A i \in 1..Len(calls[c].results) :
           /\ calls[c].results[i].algorithm = calls[c].requests[i].algorithm
           /\ calls[c].results[i].id # EmptyId <=> calls[c].frames[i].state = "returned"
           /\ calls[c].frames[i].state = "returned" =>
                /\ calls[c].results[i] = calls[c].frames[i].result
                /\ calls[c].results[i].path[1] = calls[c].requests[i].start
                /\ Last(calls[c].results[i].path) = calls[c].requests[i].end

C9_Witness ==
  \E c \in CallIds :
    /\ calls[c].op = "batch"
    /\ calls[c].pc = "returned"
    /\ Len(calls[c].results) = 3
    /\ calls[c].results[1].algorithm = "astar"
    /\ calls[c].results[1].id # EmptyId
    /\ calls[c].results[3].algorithm = "bfs"
    /\ calls[c].results[3].id # EmptyId

\* a failure of validation (status 400 or a missing point), of the strategy
\* or of the add()
FailedRequest(frame) == frame.state = "failed" /\ frame.req.k = "object"

\* C10: in a batch a request whose findPath failed has at its own index the
\* degenerate result (id '', empty path, distance 0, metadata.error set) and
\* the batch has gone on to the next request: no such failure makes the
\* batch throw, a batch that has returned has run every request, and a later
\* request that succeeded is persisted and returned as its PathResult.
C10_BatchIsolatesFailures ==
  \A c \in CallIds :
    calls[c].op = "batch" =>
      \A i \in 1..Len(calls[c].frames) :
        FailedRequest(calls[c].frames[i]) =>
          /\ calls[c].pc = "threw" => ~FailedRequest(Current(calls[c]))
          /\ calls[c].idx > i
          /\ Len(calls[c].results) >= i
          /\ calls[c].results[i].id = EmptyId
          /\ calls[c].results[i].path = <<>>
          /\ calls[c].results[i].distance = Num(0)
          /\ calls[c].results[i].metadata.error = calls[c].frames[i].error.message
          /\ calls[c].results[i].metadata.error # "undefined"
          /\ calls[c].pc = "returned" => Len(calls[c].frames) = Len(calls[c].requests)
          /\ \A j \in (i + 1)..Len(calls[c].results) :
               calls[c].frames[j].state = "returned" =>
                 /\ calls[c].results[j] = calls[c].frames[j].result
                 /\ calls[c].results[j].id = calls[c].frames[j].docId
                 /\ calls[c].results[j].id # EmptyId
                 /\ Len(calls[c].results[j].path) >= 2

C10_Witness ==
  \E c \in CallIds :
    /\ calls[c].op = "batch"
    /\ calls[c].pc = "returned"
    /\ Len(calls[c].frames) = 3
    /\ calls[c].frames[1].error = FirestoreError
    /\ calls[c].frames[2].error.status = 400
    /\ calls[c].results[2].id = EmptyId
    /\ calls[c].frames[3].state = "returned"
    /\ calls[c].results[3].id \in DOMAIN paths

\* C11: a batch never fails as a whole: whatever its items are, a null item
\* included, batchFindPath does not throw.
C11_BatchNeverThrows ==
  \A c \in CallIds : calls[c].op = "batch" => calls[c].pc # "threw"

\* a call of operation op that has settled on what its read found
SettledOnRead(c, op) ==
  /\ calls[c].op = op
  /\ calls[c].pc \in {"returned", "threw"}
  /\ calls[c].error # FirestoreError

\* C12: a get of a record that exists returns it (its id, path, distance,
\* duration, algorithm and metadata) if and only if the caller owns it or it
\* is public; any other caller gets status 403 and no data.
C12_GetVisibility ==
  \A c \in CallIds :
    (SettledOnRead(c, "get") /\ calls[c].pathId \in DOMAIN calls[c].view) =>
      LET rec == calls[c].view[calls[c].pathId]
          allowed == rec.userId = calls[c].userId \/ rec.isPublic
      IN /\ allowed <=> calls[c].pc = "returned"
         /\ allowed =>
              /\ calls[c].ret.k = "result"
              /\ calls[c].ret.result =
                   [id |-> calls[c].pathId, path |-> rec.path, distance |-> rec.distance,
                    duration |-> rec.duration, algorithm |-> rec.algorithm,
                    metadata |-> rec.metadata]
         /\ ~allowed =>
              /\ calls[c].pc = "threw"
              /\ calls[c].error.k = "http"
              /\ calls[c].error.status = 403
              /\ calls[c].ret = NoReturn

C12_Witness ==
  \E c \in CallIds :
    /\ calls[c].op = "get"
    /\ calls[c].userId = "u2"
    /\ calls[c].error.status = 403
    /\ calls[c].pathId \in DOMAIN paths
    /\ paths[calls[c].pathId].userId = "u1"
    /\ \E id \in DOMAIN paths : paths[id].isPublic

\* C14: a get of an id that is not in the repository fails with status 404,
\* whoever the caller is.
C14_GetNotFound ==
  \A c \in CallIds :
    (SettledOnRead(c, "get") /\ calls[c].pathId \notin DOMAIN calls[c].view) =>
      /\ calls[c].pc = "threw"
      /\ calls[c].error.k = "http"
      /\ calls[c].error.status = 404
      /\ calls[c].ret = NoReturn

C14_Witness ==
  \E c \in CallIds :
    /\ calls[c].op = "get"
    /\ calls[c].error.status = 404
    /\ calls[c].pathId < nextId
    /\ paths # <<>>

\* the step in which a delete throws an error of the given status
DeleteThrows(c, status) ==
  /\ calls[c].op = "delete"
  /\ calls[c].pc = "reading"
  /\ calls'[c].pc = "threw"
  /\ calls'[c].error.status = status

C13_State ==
  \A c \in CallIds :
    /\ (/\ SettledOnRead(c, "delete")
        /\ calls[c].pathId \in DOMAIN calls[c].view
        /\ calls[c].view[calls[c].pathId].userId # calls[c].userId) =>
         /\ calls[c].pc = "threw"
         /\ calls[c].error.k = "http"
         /\ calls[c].error.status = 403
    /\ (calls[c].op = "delete" /\ calls[c].pc = "deleting") =>
         calls[c].view[calls[c].pathId].userId = calls[c].userId

C13_Step == \A c \in CallIds : DeleteThrows(c, 403) => paths' = paths

\* C13: a delete by a caller who does not own the record, public or not,
\* fails with status 403 and never reaches the repository's delete; the
\* step in which it fails leaves every record as it was.
C13_DeleteDenied == []C13_State /\ [][C13_Step]_vars

C13_Witness ==
  \E c \in CallIds :
    /\ calls[c].op = "delete"
    /\ calls[c].userId = "u1"
    /\ calls[c].error.status = 403
    /\ calls[c].pathId \in DOMAIN paths
    /\ paths[calls[c].pathId].isPublic
    /\ paths[calls[c].pathId] = calls[c].view[calls[c].pathId]

C15_State ==
  \A c \in CallIds :
    (SettledOnRead(c, "delete") /\ calls[c].pathId \notin DOMAIN calls[c].view) =>
      /\ calls[c].pc = "threw"
      /\ calls[c].error.k = "http"
      /\ calls[c].error.status = 404

C15_Step == \A c \in CallIds : DeleteThrows(c, 404) => paths' = paths

\* C15: a delete of an id that is not in the repository, never assigned or
\* already deleted, fails with status 404 whoever the caller is, and the
\* step in which it fails leaves the repository as it was.
C15_DeleteNotFound == []C15_State /\ [][C15_Step]_vars

C15_Witness ==
  \E c \in CallIds :
    /\ calls[c].op = "delete"
    /\ calls[c].error.status = 404
    /\ calls[c].pathId < nextId
    /\ calls[c].pathId \notin DOMAIN paths
    /\ paths # <<>>

\* the step in which a delete commits
DeleteCommits(c) ==
  /\ calls[c].op = "delete"
  /\ calls[c].pc = "deleting"
  /\ calls'[c].pc = "returned"

C16_State ==
  \A c \in CallIds :
    /\ (/\ SettledOnRead(c, "delete")
        /\ calls[c].pathId \in DOMAIN calls[c].view
        /\ calls[c].view[calls[c].pathId].userId = calls[c].userId) =>
         /\ calls[c].pc = "returned"
         /\ calls[c].ret.k = "void"
    /\ (/\ SettledOnRead(c, "get") \/ SettledOnRead(c, "delete")
        /\ calls[c].pathId \notin DOMAIN calls[c].view) =>
         calls[c].error.status = 404
    /\ (calls[c].op = "history" /\ calls[c].pc = "returned") =>
         \A k \in DOMAIN calls[c].ret.paths :
           calls[c].ret.paths[k].id \in DOMAIN calls[c].view

C16_Step ==
  /\ \A c \in CallIds :
       DeleteCommits(c) =>
         /\ DOMAIN paths' = DOMAIN paths \ {calls[c].pathId}
         /\ \A id \in DOMAIN paths' : paths'[id] = paths[id]
  /\ \A id \in 1..(nextId - 1) : id \notin DOMAIN paths => id \notin DOMAIN paths'

\* C16: a delete by the owner of a record that exists returns; the step in
\* which it commits removes that record and no other and changes none; the
\* id never comes back, so every later get or delete of it, reading a
\* collection without it, reports 404 and no later history lists it.
C16_DeleteByOwner == []C16_State /\ [][C16_Step]_vars

C16_Witness ==
  \E c \in CallIds :
    /\ calls[c].op = "get"
    /\ calls[c].pc = "threw"
    /\ calls[c].error.status = 404
    /\ calls[c].pathId < nextId
    /\ calls[c].pathId \notin DOMAIN paths
    /\ Cardinality(DOMAIN paths) = 2

\* page and limit of a history call are both positive integers
ValidPaging(c) ==
  /\ calls[c].page.k = "num" /\ calls[c].page.v >= 1
  /\ calls[c].limit.k = "num" /\ calls[c].limit.v >= 1

\* the records of userId in a collection, and how many of them are newer
\* than the record id
OwnedIn(coll, userId) == {id \in DOMAIN coll : coll[id].userId = userId}

NewerIn(coll, userId, id) ==
  Cardinality({j \in OwnedIn(coll, userId) : coll[j].createdAt > coll[id].createdAt})

\* C17: for positive integers page and limit, history returns (unless the
\* repository itself fails) records of the caller only, also when another
\* owner's record is public, newest first, and exactly those at positions
\* (page-1)*limit+1 .. (page-1)*limit+limit of that ordering that exist;
\* a page past the end is the empty list and not an error.
C17_HistoryPage ==
  \A c \in CallIds :
    (calls[c].op = "history" /\ ValidPaging(c)) =>
      /\ calls[c].pc = "threw" => calls[c].error = FirestoreError
      /\ calls[c].pc = "returned" =>
           LET r == calls[c].ret.paths
               v == calls[c].view
               u == calls[c].userId
               off == (calls[c].page.v - 1) * calls[c].limit.v
               rest == Cardinality(OwnedIn(v, u)) - off
           IN /\ Len(r) = IF rest <= 0 THEN 0
                             ELSE IF rest < calls[c].limit.v THEN rest
                             ELSE calls[c].limit.v
              /\ \A k \in DOMAIN r :
                   /\ r[k].id \in OwnedIn(v, u)
                   /\ NewerIn(v, u, r[k].id) = off + k - 1
                   /\ r[k].path = v[r[k].id].path
                   /\ r[k].distance = v[r[k].id].distance
                   /\ r[k].algorithm = v[r[k].id].algorithm

C17_Witness ==
  \E c \in CallIds :
    /\ calls[c].op = "history"
    /\ calls[c].pc = "returned"
    /\ calls[c].userId = "u1"
    /\ calls[c].page = Num(2)
    /\ calls[c].limit = Num(1)
    /\ Len(calls[c].ret.paths) = 1
    /\ \E id \in DOMAIN calls[c].view :
         calls[c].view[id].userId = "u2" /\ calls[c].view[id].isPublic

\* C18: the total of every history result is the number of the caller's
\* records in the collection as the count query found it, whatever page and
\* limit were; records of other owners are not counted.
C18_HistoryTotal ==
  \A c \in CallIds :
    (calls[c].op = "history" /\ calls[c].pc = "returned") =>
      calls[c].ret.total = Cardinality(OwnedIn(calls[c].counted, calls[c].userId))

C18_Witness ==
  \E c \in CallIds :
    /\ calls[c].op = "history"
    /\ calls[c].pc = "returned"
    /\ calls[c].page = Num(3)
    /\ calls[c].ret.paths = <<>>
    /\ calls[c].ret.total = 2
    /\ Cardinality(DOMAIN calls[c].counted) = 3

\* C19: a history call whose page or limit is not a positive integer fails
\* with a validation error (status 400) and never queries the repository.
C19_HistoryValidation ==
  \A c \in CallIds :
    (calls[c].op = "history" /\ ~ValidPaging(c)) =>
      /\ calls[c].pc = "threw"
      /\ calls[c].error.k = "http"
      /\ calls[c].error.status = 400

C20_Step ==
  \A id \in DOMAIN paths :
    /\ id \in DOMAIN paths' => paths'[id] = paths[id]
    /\ id \notin DOMAIN paths' =>
         \E c \in CallIds :
           /\ DeleteCommits(c)
           /\ calls[c].pathId = id
           /\ calls[c].userId = paths[id].userId

\* C20: in every step of every call (find, batch, history, get, delete) a
\* record that is in the repository either stays there with every field
\* unchanged or is removed by the commit of a delete of that id called by
\* the record's own owner.
C20_RecordsImmutable == [][C20_Step]_vars

C20_Witness ==
  /\ nextId = MaxPaths + 1
  /\ Cardinality(DOMAIN paths) = MaxPaths - 1
  /\ \E c \in CallIds :
       /\ calls[c].op = "delete"
       /\ calls[c].pc = "returned"
       /\ calls[c].userId = "u2"

C21_State ==
  /\ \A ci \in FrameIds :
       FrameOf(ci).error = FirestoreError =>
         /\ FrameOf(ci).state = "failed"
         /\ FrameOf(ci).strategyRuns = 1
         /\ FrameOf(ci).docId = EmptyId
         /\ FrameOf(ci).analytics = "none"
         /\ calls[ci[1]].op = "find" =>
              /\ calls[ci[1]].pc = "threw"
              /\ calls[ci[1]].error = FirestoreError
  /\ Len(events) = Cardinality({ci \in FrameIds : FrameOf(ci).analytics = "ok"})

C21_Step ==
  \A ci \in FrameIds \cap FrameIdsNext :
    /\ (FrameOf(ci).state = "persisting" /\ FrameOfNext(ci) # FrameOf(ci)) =>
         \/ Creates(ci)
         \/ /\ FrameOfNext(ci).state = "failed"
            /\ FrameOfNext(ci).error = FirestoreError
            /\ FrameOfNext(ci).strategyRuns = FrameOf(ci).strategyRuns
            /\ paths' = paths
            /\ events' = events
    /\ FrameOf(ci).state = "failed" => FrameOfNext(ci) = FrameOf(ci)

\* C21: when the add() of a findPath rejects, the invocation fails with the
\* rejection as its error and a direct call throws it; the strategy has run
\* once and is not run again, the add() is not repeated (the failed
\* invocation never moves again and no record appears), and no analytics
\* event is written for it: there are as many events as invocations whose
\* analytics write succeeded.
C21_CreateFailurePropagates == []C21_State /\ [][C21_Step]_vars

C21_Witness ==
  \E c \in CallIds :
    /\ calls[c].op = "find"
    /\ calls[c].pc = "threw"
    /\ calls[c].error = FirestoreError
    /\ Current(calls[c]).strategyRuns = 1
    /\ Current(calls[c]).req.algorithm = "dijkstra"
    /\ events = <<>>

\* x >= 0 on a JavaScript number: false for NaN
NonNegative(x) == x.k = "num" /\ x.v >= 0

\* C22: the distance of every result that findPath or batchFindPath has
\* returned is a number >= 0, and that of a degenerate batch result is 0.
C22_DistanceNonNegative ==
  /\ \A ci \in FrameIds :
       FrameOf(ci).state = "returned" => NonNegative(FrameOf(ci).result.distance)
  /\ \A c \in CallIds :
       \A i \in 1..Len(calls[c].results) :
         /\ NonNegative(calls[c].results[i].distance)
         /\ calls[c].results[i].id = EmptyId => calls[c].results[i].distance = Num(0)

\* a point whose lat and lng are numbers of the valid ranges
ValidPoint(p) ==
  /\ p.k = "point"
  /\ InRange(p.lat, -90 * Deg, 90 * Deg)
  /\ InRange(p.lng, -180 * Deg, 180 * Deg)

\* C23: haversineDistance of a valid point and itself is 0, whichever
\* strategy's copy of the function is called.
C23_DistanceToSelf ==
  (/\ probe.first.k = "ok"
   /\ ValidPoint(probe.start)
   /\ probe.end = probe.start) => probe.first.distance = Num(0)

C23_Witness ==
  /\ probe.algorithm = "dijkstra"
  /\ probe.first.k = "ok"
  /\ probe.start = Point(Num(-90 * Deg), Num(180 * Deg))
  /\ probe.end = probe.start
  /\ probe.first.path = <<probe.start, probe.start>>

\* the request carries a bearer token that verifies
ValidBearer(header) == header.k = "string" /\ header.scheme = "Bearer" /\ header.token = "good"

\* C24: unless NODE_ENV is 'test' and BYPASS_AUTH is 'true', a request
\* without a valid bearer token that has passed through authMiddleware had
\* next called once, with the error 'Invalid or expired token', and has no
\* req.user: verification is bypassed in no other environment.
C24_BypassOnlyInTest ==
  (/\ auth.pc = "done"
   /\ ~(auth.env = "test" /\ auth.bypass = "true")
   /\ ~ValidBearer(auth.header)) =>
     /\ auth.nextCalls = 1
     /\ auth.nextArg.message = "Invalid or expired token"
     /\ auth.user = "undefined"

\* the phase an invocation is in: 1 strategy returned and create issued,
\* 2 record created and analytics issued, 3 returned; 0 is failed
Phase(frame) ==
  CASE frame.state = "persisting" -> 1
    [] frame.state = "logging" -> 2
    [] frame.state = "returned" -> 3
    [] OTHER -> 0

C25_State ==
  \A ci \in FrameIds :
    LET f == FrameOf(ci)
    IN /\ f.state \in {"persisting", "logging", "returned", "failed"}
       /\ f.strategyRuns <= 1
       /\ f.strategyRuns = 1 =>
            /\ validateCoordinates(f.req.start) = NoError
            /\ validateCoordinates(f.req.end) = NoError
       /\ Phase(f) >= 1 => f.strategyRuns = 1 /\ f.doc.path # <<>>
       /\ f.docId # EmptyId <=> Phase(f) >= 2
       /\ f.analytics # "none" <=> Phase(f) >= 2
       /\ f.analytics \in {"ok", "failed"} <=> Phase(f) = 3
       /\ f.state = "failed" <=> f.error # NoError
       /\ (f.state = "failed" /\ f.error.status = 400) => f.strategyRuns = 0

C25_Step ==
  /\ \A ci \in FrameIdsNext :
       ~Old(ci) => Phase(FrameOfNext(ci)) <= 1
  /\ \A ci \in FrameIds \cap FrameIdsNext :
       /\ Phase(FrameOf(ci)) \in {0, 3} => FrameOfNext(ci) = FrameOf(ci)
       /\ Phase(FrameOf(ci)) \in {1, 2} =>
            \/ FrameOfNext(ci) = FrameOf(ci)
            \/ Phase(FrameOfNext(ci)) = Phase(FrameOf(ci)) + 1
            \/ Phase(FrameOf(ci)) = 1 /\ Phase(FrameOfNext(ci)) = 0
       /\ FrameOfNext(ci).strategyRuns = FrameOf(ci).strategyRuns
       /\ FrameOf(ci).docId # EmptyId => FrameOfNext(ci).docId = FrameOf(ci).docId

\* C25: every findPath invocation goes through validate, strategy, create,
\* analytics, return in that order: the strategy has run only if both
\* points passed validateCoordinates, and at most once; the create is issued
\* only with the strategy's path and commits at most once; the analytics
\* write follows the create and the return follows the analytics write; an
\* invocation that failed (validating, in the strategy, or creating) did
\* nothing of the later phases and never moves again.
C25_PhaseOrder == []C25_State /\ [][C25_Step]_vars

C25_Witness ==
  \E c \in CallIds :
    /\ calls[c].op = "batch"
    /\ Len(calls[c].frames) = 3
    /\ calls[c].frames[1].state = "returned"
    /\ calls[c].frames[1].analytics = "ok"
    /\ calls[c].frames[2].strategyRuns = 0
    /\ calls[c].frames[3].error = FirestoreError
    /\ Len(events) = 1

\* C26: whatever options.steps is, the waypoint loop of a strategy runs a
\* bounded number of iterations and the strategy returns its path: no run
\* ends with the process aborted, and every run that has entered the loop
\* leaves it.
C26_StrategyTerminates ==
  /\ [](loop.pc # "aborted")
  /\ (loop.pc = "loop") ~> (loop.pc \in {"done", "threw"})

\* the findPath invocations of all calls in flight, as <<call, index>>
AllFrames == UNION {{<<c, i>> : i \in 1..Len(calls[c].frames)} : c \in DOMAIN calls}

\* the invocations whose record has been created
Created == {ci \in AllFrames : FrameOf(ci).docId # EmptyId}

\* C27: however concurrent findPath calls interleave, each one that returns
\* returns a path from its own start to its own end with its own algorithm
\* and the id of a record that carries its own userId; the ids of different
\* calls differ, and there are as many records as calls whose create
\* committed, each of which returns.
C27_ConcurrentFindsIndependent ==
  /\ \A ci \in AllFrames :
       /\ FrameOf(ci).state = "returned" =>
            /\ FrameOf(ci).result.path[1] = FrameOf(ci).req.start
            /\ Last(FrameOf(ci).result.path) = FrameOf(ci).req.end
            /\ FrameOf(ci).result.algorithm = FrameOf(ci).req.algorithm
            /\ FrameOf(ci).result.id = FrameOf(ci).docId
            /\ FrameOf(ci).docId # EmptyId
       /\ FrameOf(ci).docId # EmptyId =>
            /\ FrameOf(ci).docId \in DOMAIN paths
            /\ paths[FrameOf(ci).docId].userId = calls[ci[1]].userId
            /\ paths[FrameOf(ci).docId].start = FrameOf(ci).req.start
            /\ paths[FrameOf(ci).docId].end = FrameOf(ci).req.end
            /\ paths[FrameOf(ci).docId].algorithm = FrameOf(ci).req.algorithm
            /\ FrameOf(ci).state \in {"logging", "returned"}
       /\ \A cj \in AllFrames :
            (FrameOf(ci).docId # EmptyId /\ FrameOf(ci).docId = FrameOf(cj).docId) => ci = cj
  /\ Cardinality(DOMAIN paths) = Cardinality(Created)

C27_Witness ==
  /\ calls[1].pc = "returned"
  /\ calls[2].pc = "returned"
  /\ calls[1].userId = "u1"
  /\ calls[2].userId = "u2"
  /\ calls[1].results[1].id = 2
  /\ calls[2].results[1].id = 1
  /\ calls[1].results[1].algorithm = "astar"
  /\ Cardinality(DOMAIN paths) = 2

\* C28: of two overlapping deletes of the same record by its owner at most
\* one returns, and the other, unless its repository call itself failed,
\* throws status 404.
C28_OneDeleteWins ==
  \A c \in DOMAIN calls : \A d \in DOMAIN calls \ {c} :
    (/\ calls[c].op = "delete"
     /\ calls[d].op = "delete"
     /\ calls[c].pathId = calls[d].pathId
     /\ calls[c].pc = "returned"
     /\ calls[d].pc \in {"returned", "threw"}
     /\ calls[d].error # FirestoreError) =>
       /\ calls[d].pc = "threw"
       /\ calls[d].error.status = 404

\* C29: a history result holds at most total records and at most limit
\* records, whatever finds and deletes of the same owner commit between its
\* page query and its count query.
C29_PageWithinTotal ==
  \A c \in DOMAIN calls :
    (calls[c].op = "history" /\ calls[c].pc = "returned" /\ ValidPaging(c)) =>
      /\ Len(calls[c].ret.paths) <= calls[c].ret.total
      /\ Len(calls[c].ret.paths) <= calls[c].limit.v

\* the findPath calls that have returned and still hold their result
Found == {c \in DOMAIN calls : calls[c].op = "find" /\ calls[c].pc = "returned"}

\* C30: while a record is in the repository, a get of its id by its owner
\* returns the id, path, distance, duration, algorithm and metadata that the
\* findPath which created it returned, and the history page of the owner
\* on which the record's position falls lists it with the same fields.
C30_RoundTrip ==
  \A c \in Found : \A d \in DOMAIN calls :
    LET res == calls[c].results[1]
    IN (calls[d].userId = calls[c].userId /\ res.id \in DOMAIN calls[d].view) =>
         /\ (SettledOnRead(d, "get") /\ calls[d].pathId = res.id) =>
              /\ calls[d].pc = "returned"
              /\ calls[d].ret.k = "result"
              /\ calls[d].ret.result = res
         /\ (calls[d].op = "history" /\ calls[d].pc = "returned" /\ ValidPaging(d)) =>
              LET off == (calls[d].page.v - 1) * calls[d].limit.v
                  pos == NewerIn(calls[d].view, calls[d].userId, res.id)
              IN (off <= pos /\ pos < off + calls[d].limit.v) =>
                   /\ Len(calls[d].ret.paths) >= pos - off + 1
                   /\ calls[d].ret.paths[pos - off + 1] = res

C30_Witness ==
  \E c \in Found : \E d \in DOMAIN calls :
    /\ calls[d].op = "history"
    /\ calls[d].pc = "returned"
    /\ calls[d].page = Num(2)
    /\ calls[d].ret.paths = <<calls[c].results[1]>>
    /\ calls[c].results[1].id = 1
    /\ calls[c].results[1].duration = 1
    /\ Cardinality(DOMAIN paths) = 2

====
